---- MODULE Spec2Model ----
(***************************************************************************)
(* The lease-based work queue of ReportService: the queue table that the   *)
(* container processor (src/container/processor.py) claims from and        *)
(* reports to, and that the poller (src/lambda_poller/index.py) sweeps     *)
(* for stale leases and measures.  Every SQL statement is one atomic       *)
(* step of the store; the steps of different processes interleave.         *)
(***************************************************************************)
EXTENDS Integers, FiniteSets, Sequences, TLC

\* ------------------------------------------------------------------ bounds
NumItems == 2
NumWorkers == 3
MaxTicks == 3
TickMinutes == 31
NumClaimItems == 2
NumClaimWorkers == 3
MaxCount == 2
NumPriorities == 2
MaxPending == 520
MaxBacklog == 30
MaxLeased == 1
MaxRunning == 28
NumRunItems == 2
NumRunWorkers == 3
NumLiveItems == 2
NumLiveWorkers == 2
NumReports == 2
NumServices == 1
MaxTriggers == 2
NumPairReports == 1
NumPairServices == 2
NumShutdownItems == 1
NumShutdownWorkers == 1
NumAttemptItems == 1
NumAttemptWorkers == 4
NumOrderItems == 1
NumOrderWorkers == 2
NumFetchReports == 3
MaxTimestamp == 2
NumRequests == 2

\* ------------------------------------------------------- program constants
MaxRetries == 3
STALE_THRESHOLD_MINUTES == 30
MAX_ENTRIES == 8
ENTRIES_PER_CONTAINER == 8
MAX_CONTAINERS == 25

\* SQL NULL of a column (processor_id, claimed_at, retry_count).
NULL == -1

Responses == {"200", "non200", "timeout", "exception"}

\* The steps of run()'s setup that can fail before claim_entries is called.
SetupSteps == {"certificates", "connection"}

VARIABLES
    status,        \* column status of each row
    processor_id,  \* column processor_id
    claimed_at,    \* column claimed_at
    retry_count,   \* column retry_count
    created_at,    \* column created_at (set by the producer)
    priority,      \* the item's priority class (1 is the highest)
    now,           \* datetime.utcnow(), in minutes
    pc,            \* where each processor's run() is
    count_arg,     \* the count each processor passed to claim_entries
    entries,       \* what claim_entries returned to each processor
    response,      \* what the external service answered, per processor and item
    ppc,           \* where the poller's handler is
    stale_count,   \* handler's stale_count
    reclaimed,     \* history: the rows this invocation's reset_stale_entries reclaimed
    reclaims,      \* history: how often reset_stale_entries reclaimed each row
    exit_code,     \* what each processor's run() returned (NULL: still running)
    setup_error,   \* which step of run()'s setup failed, per processor
    claim_error,   \* whether the store raised inside the processor's claim_entries
    mark_error,    \* the rows for which the store raised inside the processor's mark
    pending_count,     \* handler's pending_count
    containers_needed, \* handler's containers_needed
    attempts,      \* the run_task calls launch_ecs_tasks made in this cycle
    launched,      \* len(launched_tasks)
    failed_attempts, \* history: the run_task calls of this cycle that failed
    running,       \* the tasks that were launched and have not exited
    desired_count, \* the desired count the ECS service was last set to
    reset_time,    \* history: the time of this cycle's reset_stale_entries
    prev_reset_time, \* history: the time of the cycle before
    prev_needed,   \* history: containers_needed of the cycle before
    shutdown,      \* self.shutdown of each processor
    report_status, \* column STATUS of each row of REPORT_CONFIG ("ABSENT": not inserted yet)
    trigger_type,  \* column TRIGGER_TYPE
    due,           \* whether the row's NEXT_RUN_TIME has come
    schedule_expression, \* column SCHEDULE_EXPRESSION (NULL or an expression)
    spc,           \* where each report service's run() is
    self_running,  \* self.running of each report service
    adhoc_count,   \* run()'s adhoc_count
    scheduled_count, \* run()'s scheduled_count
    total_processed, \* run()'s total_processed
    reports,       \* what is left of the list process_*_reports iterates over
    current,       \* the report whose generate_report is running (NULL: none)
    generated_by,  \* history: the services that called generate_report for each row
    triggers,      \* the invocations of the trigger handler that have not run yet
    trigger_failed, \* history: an invocation of the trigger handler failed
    report_priority,   \* column PRIORITY of each row of REPORT_CONFIG
    created_timestamp, \* column CREATED_TIMESTAMP
    next_run_time,     \* column NEXT_RUN_TIME (NULL: none)
    fetched,       \* the list get_*_reports returned to process_*_reports
    handled,       \* history: the reports the for loop has taken from the list, in order
    trigger_env,   \* what the trigger handler's environment and ECS calls do
    requests,      \* the events the trigger handler is invoked with
    responses      \* what the handler returned for each event it was invoked with

\* The rows of the table and the processors that were launched.
Items == DOMAIN status
Workers == DOMAIN pc

vars == <<status, processor_id, claimed_at, retry_count, created_at, priority,
          now, pc, count_arg, entries, response, ppc, stale_count, reclaimed, reclaims,
          exit_code, setup_error, claim_error, mark_error,
          pending_count, containers_needed, attempts, launched, failed_attempts, running,
          desired_count, reset_time, prev_reset_time, prev_needed,
          shutdown, report_status, trigger_type, due, schedule_expression,
          spc, self_running, adhoc_count, scheduled_count, total_processed,
          reports, current, generated_by, triggers, trigger_failed,
          report_priority, created_timestamp, next_run_time, fetched, handled,
          trigger_env, requests, responses>>

row_vars == <<status, processor_id, claimed_at, retry_count, created_at, priority>>
worker_vars == <<pc, count_arg, entries, response>>
poller_vars == <<ppc, stale_count, reclaimed>>
error_vars == <<setup_error, claim_error, mark_error>>
run_vars == <<exit_code, setup_error, claim_error, mark_error>>
dispatch_vars == <<pending_count, containers_needed, attempts, launched, failed_attempts, running,
                   desired_count, reset_time, prev_reset_time, prev_needed>>

report_row_vars == <<report_status, trigger_type, due, schedule_expression>>
service_local_vars == <<adhoc_count, scheduled_count, total_processed, reports, current>>
service_vars == <<report_status, trigger_type, due, schedule_expression,
                  spc, self_running, adhoc_count, scheduled_count, total_processed,
                  reports, current, generated_by, triggers, trigger_failed,
                  report_priority, created_timestamp, next_run_time, fetched, handled,
                  trigger_env, requests, responses>>
fetch_vars == <<report_priority, created_timestamp, next_run_time, fetched, handled>>
invocation_vars == <<trigger_env, requests, responses>>

\* The rows of REPORT_CONFIG and the report services that were started.
Reports == DOMAIN report_status
Services == DOMAIN spc

\* One row of the table, as the tuple of its columns.
Row(i) == <<status[i], processor_id[i], claimed_at[i], retry_count[i],
            created_at[i], priority[i]>>

\* --------------------------------------------------- SQL three-valued logic
\* a < b in a WHERE clause: not true when either side is NULL.
SqlLt(a, b) == a # NULL /\ b # NULL /\ a < b
\* a = b in a WHERE clause: not true when either side is NULL.
SqlEq(a, b) == a # NULL /\ b # NULL /\ a = b
\* a + b in a SET clause: NULL when either side is NULL.
SqlPlus(a, b) == IF a = NULL \/ b = NULL THEN NULL ELSE a + b

\* ------------------------------------------------------------ claim_entries
\* claim subquery whose retry filter is retry_count <= 3
ClaimEligible_RetryInclusive(i) ==
    /\ status[i] = "pending"
    /\ (SqlLt(retry_count[i], MaxRetries + 1) \/ retry_count[i] = NULL)

\* claim subquery without its status filter
ClaimEligible_AnyStatus(i) ==
    SqlLt(retry_count[i], MaxRetries) \/ retry_count[i] = NULL

\* WHERE status = 'pending' AND (retry_count < 3 OR retry_count IS NULL)
ClaimEligible(i) ==
    /\ status[i] = "pending"
    /\ (SqlLt(retry_count[i], MaxRetries) \/ retry_count[i] = NULL)

Min(a, b) == IF a <= b THEN a ELSE b

\* claim subquery without its LIMIT
ClaimSelections_NoLimit(count) ==
    {{i \in Items : ClaimEligible(i)}}

\* ORDER BY created_at ASC LIMIT count: the sets of rows the subquery can
\* select (rows with equal created_at come in either order).
ClaimSelections(count) ==
    LET eligible == {i \in Items : ClaimEligible(i)}
    IN  {S \in SUBSET eligible :
            /\ Cardinality(S) = Min(count, Cardinality(eligible))
            /\ \A i \in S : \A j \in eligible \ S : created_at[i] <= created_at[j]}

\* SET status = 'processing', processor_id = %s, claimed_at = %s
\* WHERE id IN (...) RETURNING id, data
ClaimUpdate(w, S) ==
    /\ status' = [i \in Items |-> IF i \in S THEN "processing" ELSE status[i]]
    /\ processor_id' = [i \in Items |-> IF i \in S THEN w ELSE processor_id[i]]
    /\ claimed_at' = [i \in Items |-> IF i \in S THEN now ELSE claimed_at[i]]
    /\ UNCHANGED <<retry_count, created_at, priority>>

\* run() up to its first suspension point: claim_entries(MAX_ENTRIES), and the
\* return when nothing was claimed.  Processor ids are generated per launch, so
\* the processors start in the order of their ids.
\* run() that takes an empty claim for an error and returns 1
claim_entries_EmptyIsError(w, count) ==
    /\ pc[w] = "start"
    /\ \A v \in Workers : v < w => pc[v] # "start"
    /\ \E S \in ClaimSelections(count) :
        /\ ClaimUpdate(w, S)
        /\ entries' = [entries EXCEPT ![w] = S]
        /\ pc' = [pc EXCEPT ![w] = IF S = {} THEN "done" ELSE "processing"]
        /\ exit_code' = [exit_code EXCEPT ![w] = IF S = {} THEN 1 ELSE @]
    /\ count_arg' = [count_arg EXCEPT ![w] = count]
    /\ UNCHANGED <<now, response, reclaims>>
    /\ UNCHANGED poller_vars
    /\ UNCHANGED error_vars
    /\ UNCHANGED dispatch_vars
    /\ UNCHANGED shutdown
    /\ UNCHANGED service_vars

claim_entries(w, count) ==
    /\ pc[w] = "start"
    /\ \A v \in Workers : v < w => pc[v] # "start"
    /\ \E S \in ClaimSelections(count) :
        /\ ClaimUpdate(w, S)
        /\ entries' = [entries EXCEPT ![w] = S]
        /\ pc' = [pc EXCEPT ![w] = IF S = {} THEN "done" ELSE "processing"]
        /\ exit_code' = [exit_code EXCEPT ![w] = IF S = {} THEN 0 ELSE @]
    /\ count_arg' = [count_arg EXCEPT ![w] = count]
    /\ UNCHANGED <<now, response, reclaims>>
    /\ UNCHANGED poller_vars
    /\ UNCHANGED error_vars
    /\ UNCHANGED dispatch_vars
    /\ UNCHANGED shutdown
    /\ UNCHANGED service_vars

Claim(w) == claim_entries(w, MAX_ENTRIES)

\* ------------------------------------- mark_entry_completed / mark_entry_failed
\* WHERE id = %s, without the processor_id guard
OwnedBy_IdOnly(i, w) == TRUE

\* WHERE id = %s AND processor_id = %s
OwnedBy(i, w) == SqlEq(processor_id[i], w)

\* SET status = 'completed', completed_at = %s
mark_entry_completed(i, w) ==
    /\ status' = [status EXCEPT ![i] = IF OwnedBy(i, w) THEN "completed" ELSE @]
    /\ UNCHANGED <<processor_id, claimed_at, retry_count, created_at, priority>>

\* SET status = 'failed', failed_at = %s, error_message = %s
mark_entry_failed(i, w) ==
    /\ status' = [status EXCEPT ![i] = IF OwnedBy(i, w) THEN "failed" ELSE @]
    /\ UNCHANGED <<processor_id, claimed_at, retry_count, created_at, priority>>

\* process_entry without its handler for asyncio.TimeoutError
process_entry_TimeoutUnmarked(w, i, r) ==
    IF r = "200" THEN mark_entry_completed(i, w)
    ELSE IF r = "timeout" THEN UNCHANGED row_vars
    ELSE mark_entry_failed(i, w)

\* process_entry: the external call answers r, and the entry is marked.
process_entry(w, i, r) ==
    IF r = "200" THEN mark_entry_completed(i, w) ELSE mark_entry_failed(i, w)

\* process_batch gathers one process_entry per claimed entry; run() returns
\* once every one of them has finished.
BatchFinished(w, resp) == \A j \in entries[w] : resp[w][j] # "none"

ProcessEntry(w, i, r) ==
    /\ pc[w] = "processing"
    /\ i \in entries[w]
    /\ response[w][i] = "none"
    /\ process_entry(w, i, r)
    /\ response' = [response EXCEPT ![w][i] = r]
    /\ pc' = [pc EXCEPT ![w] = IF BatchFinished(w, response') THEN "done" ELSE @]
    /\ exit_code' = [exit_code EXCEPT ![w] =
            IF BatchFinished(w, response') THEN 0 ELSE @]
    /\ UNCHANGED <<now, count_arg, entries, reclaims>>
    /\ UNCHANGED poller_vars
    /\ UNCHANGED error_vars
    /\ UNCHANGED dispatch_vars
    /\ UNCHANGED shutdown
    /\ UNCHANGED service_vars

\* ------------------------------------------------------------------- poller
\* reset_stale_entries' WHERE clause without its status filter
IsStale_AnyStatus(i) == SqlLt(claimed_at[i], now - STALE_THRESHOLD_MINUTES)

\* WHERE status = 'processing' AND claimed_at < %s   (stale_time)
IsStale(i) ==
    /\ status[i] = "processing"
    /\ SqlLt(claimed_at[i], now - STALE_THRESHOLD_MINUTES)

\* reset_stale_entries without claimed_at = NULL in its SET clause
reset_stale_entries_KeepsClaimedAt ==
    /\ status' = [i \in Items |-> IF IsStale(i) THEN "pending" ELSE status[i]]
    /\ processor_id' = [i \in Items |-> IF IsStale(i) THEN NULL ELSE processor_id[i]]
    /\ retry_count' = [i \in Items |->
            IF IsStale(i) THEN SqlPlus(retry_count[i], 1) ELSE retry_count[i]]
    /\ UNCHANGED <<claimed_at, created_at, priority>>

\* reset_stale_entries without status = 'pending' and claimed_at = NULL in its
\* SET clause
reset_stale_entries_KeepsStatus ==
    /\ processor_id' = [i \in Items |-> IF IsStale(i) THEN NULL ELSE processor_id[i]]
    /\ retry_count' = [i \in Items |->
            IF IsStale(i) THEN SqlPlus(retry_count[i], 1) ELSE retry_count[i]]
    /\ UNCHANGED <<status, claimed_at, created_at, priority>>

\* SET status = 'pending', processor_id = NULL, claimed_at = NULL,
\*     retry_count = retry_count + 1
reset_stale_entries ==
    /\ status' = [i \in Items |-> IF IsStale(i) THEN "pending" ELSE status[i]]
    /\ processor_id' = [i \in Items |-> IF IsStale(i) THEN NULL ELSE processor_id[i]]
    /\ claimed_at' = [i \in Items |-> IF IsStale(i) THEN NULL ELSE claimed_at[i]]
    /\ retry_count' = [i \in Items |->
            IF IsStale(i) THEN SqlPlus(retry_count[i], 1) ELSE retry_count[i]]
    /\ UNCHANGED <<created_at, priority>>

\* count query without its retry_count filter
CountedPending_AnyRetry(i) == status[i] = "pending"

\* WHERE status = 'pending' AND (retry_count < 3 OR retry_count IS NULL)
CountedPending(i) ==
    /\ status[i] = "pending"
    /\ (SqlLt(retry_count[i], MaxRetries) \/ retry_count[i] = NULL)

get_pending_entries_count == Cardinality({i \in Items : CountedPending(i)})

\* handler: stale_count = reset_stale_entries(conn)
HandlerReset ==
    /\ ppc = "reset"
    /\ reset_stale_entries
    /\ stale_count' = Cardinality({i \in Items : IsStale(i)})
    /\ reclaimed' = {i \in Items : IsStale(i)}
    /\ reclaims' = [i \in Items |-> IF IsStale(i) THEN reclaims[i] + 1 ELSE reclaims[i]]
    /\ ppc' = "count"
    /\ UNCHANGED now
    /\ UNCHANGED worker_vars
    /\ UNCHANGED run_vars
    /\ UNCHANGED dispatch_vars
    /\ UNCHANGED shutdown
    /\ UNCHANGED service_vars

\* handler: pending_count = get_pending_entries_count(conn), a read of the
\* table, and the rest of the handler up to its return, which writes nothing to
\* the table and ends the life of the handler's locals
HandlerCount ==
    /\ ppc = "count"
    /\ LET result == get_pending_entries_count
       IN  result \in 0..Cardinality(Items)
    /\ ppc' = "reset"
    /\ stale_count' = 0
    /\ reclaimed' = {}
    /\ UNCHANGED <<now, reclaims>>
    /\ UNCHANGED row_vars
    /\ UNCHANGED worker_vars
    /\ UNCHANGED run_vars
    /\ UNCHANGED dispatch_vars
    /\ UNCHANGED shutdown
    /\ UNCHANGED service_vars

\* --------------------------------------------------------------------- time
Tick ==
    /\ now + TickMinutes <= MaxTicks * TickMinutes
    /\ now' = now + TickMinutes
    /\ UNCHANGED <<reclaims>>
    /\ UNCHANGED row_vars
    /\ UNCHANGED worker_vars
    /\ UNCHANGED poller_vars
    /\ UNCHANGED run_vars
    /\ UNCHANGED dispatch_vars
    /\ UNCHANGED shutdown
    /\ UNCHANGED service_vars

\* ------------------------------------------------------------ specification
\* No step of any processor's run() has failed.
NoErrors(W) ==
    /\ setup_error = [w \in W |-> "none"]
    /\ claim_error = [w \in W |-> FALSE]
    /\ mark_error = [w \in W |-> {}]

\* No handler invocation has run yet, no task is running, and the execution
\* collaborator's desired count is d.
PollerIdle(d) ==
    /\ pending_count = 0
    /\ containers_needed = 0
    /\ attempts = 0
    /\ launched = 0
    /\ failed_attempts = {}
    /\ running = 0
    /\ desired_count = d
    /\ reset_time = NULL
    /\ prev_reset_time = NULL
    /\ prev_needed = NULL

\* No report service has been deployed: REPORT_CONFIG has no rows, no service
\* runs, no trigger is outstanding.
\* No invocation of the trigger handler is followed.
NoInvocations ==
    /\ trigger_env = NULL
    /\ requests = <<>>
    /\ responses = <<>>

NoReportService ==
    /\ report_status = <<>>
    /\ trigger_type = <<>>
    /\ due = <<>>
    /\ schedule_expression = <<>>
    /\ spc = <<>>
    /\ self_running = <<>>
    /\ adhoc_count = <<>>
    /\ scheduled_count = <<>>
    /\ total_processed = <<>>
    /\ reports = <<>>
    /\ current = <<>>
    /\ generated_by = <<>>
    /\ triggers = 0
    /\ trigger_failed = FALSE
    /\ report_priority = <<>>
    /\ created_timestamp = <<>>
    /\ next_run_time = <<>>
    /\ fetched = <<>>
    /\ handled = <<>>
    /\ NoInvocations

\* The producer has inserted the rows: pending, not leased, retry_count 0 or
\* NULL, numbered in the order of their creation.
ProducedQueue(items, workers, t) ==
    /\ shutdown = [w \in 1..workers |-> FALSE]
    /\ status = [i \in 1..items |-> "pending"]
    /\ processor_id = [i \in 1..items |-> NULL]
    /\ claimed_at = [i \in 1..items |-> NULL]
    /\ retry_count \in [1..items -> {NULL, 0}]
    /\ created_at = [i \in 1..items |-> 0]
    /\ priority = [i \in 1..items |-> 1]
    /\ now = t
    /\ pc = [w \in 1..workers |-> "start"]
    /\ count_arg = [w \in 1..workers |-> 0]
    /\ entries = [w \in 1..workers |-> {}]
    /\ response = [w \in 1..workers |-> [i \in 1..items |-> "none"]]
    /\ ppc = "reset"
    /\ stale_count = 0
    /\ reclaimed = {}
    /\ reclaims = [i \in 1..items |-> 0]
    /\ NoErrors(1..workers)
    /\ exit_code = [w \in 1..workers |-> NULL]
    /\ PollerIdle(1)

Produced(items, workers, t) == ProducedQueue(items, workers, t) /\ NoReportService

Init == Produced(NumItems, NumWorkers, 0)

Next ==
    \/ \E w \in Workers : Claim(w)
    \/ \E w \in Workers : \E i \in Items : \E r \in Responses : ProcessEntry(w, i, r)
    \/ HandlerReset
    \/ HandlerCount
    \/ Tick

Spec == Init /\ [][Next]_vars

\* ------------------------------------------- claim_entries on any table state
\* A table as earlier runs can have left it: processor 1 claimed the rows of
\* `held` at minute 0 and is still processing them; the other rows are pending,
\* fresh (retry_count 0 or NULL) or with their retries used up.  The rows are
\* numbered in the order of their creation.  The other processors call
\* claim_entries with any count.
InitClaim ==
    \E held \in SUBSET (1..NumClaimItems) :
        /\ status = [i \in 1..NumClaimItems |->
                IF i \in held THEN "processing" ELSE "pending"]
        /\ processor_id = [i \in 1..NumClaimItems |-> IF i \in held THEN 1 ELSE NULL]
        /\ claimed_at = [i \in 1..NumClaimItems |-> IF i \in held THEN 0 ELSE NULL]
        /\ retry_count \in [1..NumClaimItems -> {NULL, 0, MaxRetries}]
        /\ \A i \in held : retry_count[i] # MaxRetries
        /\ created_at \in {f \in [1..NumClaimItems -> 0..(NumClaimItems - 1)] :
                /\ f[1] = 0
                /\ \A i \in 2..NumClaimItems : f[i] \in {f[i - 1], f[i - 1] + 1}}
        /\ priority \in [1..NumClaimItems -> 1..NumPriorities]
        /\ now = TickMinutes
        /\ pc = [w \in 1..NumClaimWorkers |->
                IF w > 1 THEN "start" ELSE IF held = {} THEN "done" ELSE "processing"]
        /\ count_arg = [w \in 1..NumClaimWorkers |-> IF w = 1 THEN MAX_ENTRIES ELSE 0]
        /\ entries = [w \in 1..NumClaimWorkers |-> IF w = 1 THEN held ELSE {}]
        /\ response = [w \in 1..NumClaimWorkers |-> [i \in 1..NumClaimItems |-> "none"]]
        /\ ppc = "reset"
        /\ stale_count = 0
        /\ reclaimed = {}
        /\ reclaims = [i \in 1..NumClaimItems |-> 0]
        /\ NoErrors(1..NumClaimWorkers)
        /\ shutdown = [w \in 1..NumClaimWorkers |-> FALSE]
        /\ NoReportService
        /\ exit_code = [w \in 1..NumClaimWorkers |->
                IF w = 1 /\ held = {} THEN 0 ELSE NULL]
        /\ PollerIdle(1)

ClaimCall(w, count) == claim_entries(w, count)

NextClaim == \E w \in Workers : \E count \in 1..MaxCount : ClaimCall(w, count)

SpecClaim == InitClaim /\ [][NextClaim]_vars

\* ------------------------------------------ run() with failing collaborators
\* run() when download_certificates ignores that the download failed
SetupFailed_CertificatesIgnored(w, step) ==
    IF step = "certificates"
    THEN /\ \E S \in ClaimSelections(MAX_ENTRIES) :
            /\ ClaimUpdate(w, S)
            /\ entries' = [entries EXCEPT ![w] = S]
            /\ pc' = [pc EXCEPT ![w] = IF S = {} THEN "done" ELSE "processing"]
            /\ exit_code' = [exit_code EXCEPT ![w] = IF S = {} THEN 0 ELSE @]
         /\ count_arg' = [count_arg EXCEPT ![w] = MAX_ENTRIES]
         /\ UNCHANGED response
    ELSE /\ pc' = [pc EXCEPT ![w] = "done"]
         /\ exit_code' = [exit_code EXCEPT ![w] = 1]
         /\ UNCHANGED <<count_arg, entries, response>>
         /\ UNCHANGED row_vars

\* run(): download_certificates returned False (return 1), or get_connection
\* raised (except Exception: return 1); claim_entries is not reached.
SetupFailed(w, step) ==
    /\ pc' = [pc EXCEPT ![w] = "done"]
    /\ exit_code' = [exit_code EXCEPT ![w] = 1]
    /\ UNCHANGED <<count_arg, entries, response>>
    /\ UNCHANGED row_vars

SetupFailure(w, step) ==
    /\ pc[w] = "start"
    /\ \A v \in Workers : v < w => pc[v] # "start"
    /\ SetupFailed(w, step)
    /\ setup_error' = [setup_error EXCEPT ![w] = step]
    /\ UNCHANGED <<claim_error, mark_error>>
    /\ UNCHANGED <<now, reclaims>>
    /\ UNCHANGED poller_vars
    /\ UNCHANGED dispatch_vars
    /\ UNCHANGED shutdown
    /\ UNCHANGED service_vars

\* a failed statement whose write of status st to the rows S stays in the
\* table (no conn.rollback())
rollback_KeepsWrite(S, st) ==
    /\ status' = [i \in Items |-> IF i \in S THEN st ELSE status[i]]
    /\ UNCHANGED <<processor_id, claimed_at, retry_count, created_at, priority>>

\* except Exception: self.conn.rollback() -- the statement that was writing
\* status st to the rows S leaves nothing in the table.
rollback(S, st) == UNCHANGED row_vars

\* run() when the store raises inside claim_entries: rollback, return [], and
\* run() takes the empty list for "No entries to process" and returns 0.
ClaimStoreFailure(w) ==
    /\ pc[w] = "start"
    /\ \A v \in Workers : v < w => pc[v] # "start"
    /\ \E S \in ClaimSelections(MAX_ENTRIES) : rollback(S, "processing")
    /\ entries' = [entries EXCEPT ![w] = {}]
    /\ count_arg' = [count_arg EXCEPT ![w] = MAX_ENTRIES]
    /\ pc' = [pc EXCEPT ![w] = "done"]
    /\ exit_code' = [exit_code EXCEPT ![w] = 0]
    /\ claim_error' = [claim_error EXCEPT ![w] = TRUE]
    /\ UNCHANGED <<setup_error, mark_error>>
    /\ UNCHANGED <<now, response, reclaims>>
    /\ UNCHANGED poller_vars
    /\ UNCHANGED dispatch_vars
    /\ UNCHANGED shutdown
    /\ UNCHANGED service_vars

\* The 'status' of the dict process_entry returns after response r.
ResultStatus(r) == IF r = "200" THEN "success" ELSE "failed"

\* process_entry when the store raises inside mark_entry_completed or
\* mark_entry_failed: rollback, the exception is logged and not raised again,
\* and process_entry returns as if the row had been marked.
MarkStoreFailure(w, i, r) ==
    /\ pc[w] = "processing"
    /\ i \in entries[w]
    /\ response[w][i] = "none"
    /\ rollback({j \in {i} : OwnedBy(j, w)}, IF r = "200" THEN "completed" ELSE "failed")
    /\ response' = [response EXCEPT ![w][i] = r]
    /\ mark_error' = [mark_error EXCEPT ![w] = @ \cup {i}]
    /\ pc' = [pc EXCEPT ![w] = IF BatchFinished(w, response') THEN "done" ELSE @]
    /\ exit_code' = [exit_code EXCEPT ![w] =
            IF BatchFinished(w, response') THEN 0 ELSE @]
    /\ UNCHANGED <<setup_error, claim_error>>
    /\ UNCHANGED <<now, count_arg, entries, reclaims>>
    /\ UNCHANGED poller_vars
    /\ UNCHANGED dispatch_vars
    /\ UNCHANGED shutdown
    /\ UNCHANGED service_vars

\* process_batch when get_ssl_context raises (the downloaded files do not load
\* as a certificate chain): no process_entry is created, the exception reaches
\* run()'s except Exception, and run() returns 1 with its claimed rows unmarked.
SslContextFailure(w) ==
    /\ pc[w] = "processing"
    /\ \A i \in entries[w] : response[w][i] = "none"
    /\ pc' = [pc EXCEPT ![w] = "done"]
    /\ exit_code' = [exit_code EXCEPT ![w] = 1]
    /\ UNCHANGED <<now, count_arg, entries, response, reclaims>>
    /\ UNCHANGED row_vars
    /\ UNCHANGED poller_vars
    /\ UNCHANGED error_vars
    /\ UNCHANGED dispatch_vars
    /\ UNCHANGED shutdown
    /\ UNCHANGED service_vars

\* The lease protocol with processors whose setup, claim or marks can fail;
\* the clock has one tick left, enough for one lease to go stale.
InitRun == Produced(NumRunItems, NumRunWorkers, (MaxTicks - 1) * TickMinutes)

NextRun ==
    \/ \E w \in Workers : Claim(w)
    \/ \E w \in Workers : \E i \in Items : \E r \in Responses : ProcessEntry(w, i, r)
    \/ \E w \in Workers : \E step \in SetupSteps : SetupFailure(w, step)
    \/ \E w \in Workers : ClaimStoreFailure(w)
    \/ \E w \in Workers : \E i \in Items : \E r \in Responses : MarkStoreFailure(w, i, r)
    \/ \E w \in Workers : SslContextFailure(w)
    \/ HandlerReset
    \/ HandlerCount
    \/ Tick

SpecRun == InitRun /\ [][NextRun]_vars

\* ------------------------------------------------- the poller's dispatch cycle
\* math.ceil(a / b) of two non-negative integers, b > 0
Ceil(a, b) == (a \div b) + (IF a % b = 0 THEN 0 ELSE 1)

\* calculate_containers_needed without the min(..., MAX_CONTAINERS)
calculate_containers_needed_Uncapped(entry_count) ==
    IF entry_count = 0 THEN 0
    ELSE Ceil(entry_count, ENTRIES_PER_CONTAINER)

\* calculate_containers_needed without its entry_count == 0 case, keeping one
\* container
calculate_containers_needed_AtLeastOne(entry_count) ==
    LET needed == Ceil(entry_count, ENTRIES_PER_CONTAINER)
    IN  IF needed < 1 THEN 1 ELSE Min(needed, MAX_CONTAINERS)

calculate_containers_needed(entry_count) ==
    IF entry_count = 0 THEN 0
    ELSE LET needed == Ceil(entry_count, ENTRIES_PER_CONTAINER)
         IN  Min(needed, MAX_CONTAINERS)

\* handler: pending_count = get_pending_entries_count(conn)
HandlerPending ==
    /\ ppc = "count"
    /\ pending_count' = get_pending_entries_count
    /\ ppc' = "calculate"
    /\ UNCHANGED <<containers_needed, attempts, launched, failed_attempts, running, desired_count,
                   reset_time, prev_reset_time, prev_needed>>
    /\ UNCHANGED <<now, stale_count, reclaimed, reclaims>>
    /\ UNCHANGED row_vars
    /\ UNCHANGED worker_vars
    /\ UNCHANGED run_vars
    /\ UNCHANGED shutdown
    /\ UNCHANGED service_vars

\* handler: containers_needed = calculate_containers_needed(pending_count)
HandlerCalculate ==
    /\ ppc = "calculate"
    /\ containers_needed' = calculate_containers_needed(pending_count)
    /\ ppc' = "launch"
    /\ UNCHANGED <<pending_count, attempts, launched, failed_attempts, running, desired_count,
                   reset_time, prev_reset_time, prev_needed>>
    /\ UNCHANGED <<now, stale_count, reclaimed, reclaims>>
    /\ UNCHANGED row_vars
    /\ UNCHANGED worker_vars
    /\ UNCHANGED run_vars
    /\ UNCHANGED shutdown
    /\ UNCHANGED service_vars

\* A table at minute t: rows 1..k are leased, claimed this minute by a
\* processor of an earlier cycle, and n pending rows follow; no processor of
\* this cycle has started, and the handler is about to run statement `at`.
BacklogQueue(k, n, at, t, d) ==
    /\ status = [i \in 1..(k + n) |-> IF i <= k THEN "processing" ELSE "pending"]
    /\ processor_id = [i \in 1..(k + n) |-> IF i <= k THEN 1 ELSE NULL]
    /\ claimed_at = [i \in 1..(k + n) |-> IF i <= k THEN t ELSE NULL]
    /\ retry_count = [i \in 1..(k + n) |-> 0]
    /\ created_at = [i \in 1..(k + n) |-> 0]
    /\ priority = [i \in 1..(k + n) |-> 1]
    /\ now = t
    /\ pc = <<>>
    /\ count_arg = <<>>
    /\ entries = <<>>
    /\ response = <<>>
    /\ ppc = at
    /\ stale_count = 0
    /\ reclaimed = {}
    /\ reclaims = [i \in 1..(k + n) |-> 0]
    /\ NoErrors({})
    /\ exit_code = <<>>
    /\ PollerIdle(d)
    /\ shutdown = <<>>

Backlog(k, n, at, t, d) == BacklogQueue(k, n, at, t, d) /\ NoReportService

\* The sizing of one handler invocation, for every backlog up to MaxPending.
InitSizer == \E n \in 0..MaxPending : Backlog(0, n, "count", 0, 1)

NextSizer == HandlerPending \/ HandlerCalculate

SpecSizer == InitSizer /\ [][NextSizer]_vars

\* handler: stale_count = reset_stale_entries(conn), the first statement of an
\* invocation; the history variables keep when this and the previous
\* invocation swept the table.
HandlerSweep ==
    /\ ppc = "reset"
    /\ reset_stale_entries
    /\ stale_count' = Cardinality({i \in Items : IsStale(i)})
    /\ reclaimed' = {i \in Items : IsStale(i)}
    /\ reclaims' = [i \in Items |-> IF IsStale(i) THEN reclaims[i] + 1 ELSE reclaims[i]]
    /\ ppc' = "count"
    /\ reset_time' = now
    /\ prev_reset_time' = reset_time
    /\ UNCHANGED <<pending_count, containers_needed, attempts, launched, failed_attempts, running,
                   desired_count, prev_needed>>
    /\ UNCHANGED now
    /\ UNCHANGED worker_vars
    /\ UNCHANGED run_vars
    /\ UNCHANGED shutdown
    /\ UNCHANGED service_vars

\* for i in range(count): the attempts are numbered 1..count here; attempt i
\* adds a task to `launched` unless run_task raised or returned no task (i is
\* in `failing`), and the loop goes on to attempt i + 1 either way.
RECURSIVE LaunchLoop(_, _, _, _)
LaunchLoop(i, count, failing, acc) ==
    IF i > count THEN acc
    ELSE LaunchLoop(i + 1, count, failing,
            [attempts |-> acc.attempts + 1,
             launched |-> acc.launched + (IF i \in failing THEN 0 ELSE 1)])

\* launch_ecs_tasks whose loop ends at the first run_task that fails
launch_ecs_tasks_StopsAtFailure(count, failing) ==
    IF failing = {} THEN LaunchLoop(1, count, failing, [attempts |-> 0, launched |-> 0])
    ELSE LET first == CHOOSE i \in failing : \A j \in failing : i <= j
         IN  [attempts |-> first, launched |-> first - 1]

launch_ecs_tasks(count, failing) ==
    LaunchLoop(1, count, failing, [attempts |-> 0, launched |-> 0])

\* The run_task calls that fail in one launch_ecs_tasks(count): none, any one
\* of them, or all of them.
FailurePatterns(count) == {{}} \cup {{i} : i \in 1..count} \cup {1..count}

\* handler: if containers_needed > 0: launched_tasks = launch_ecs_tasks(...),
\* else nothing; the response body is built from pending_count, stale_count
\* and len(launched_tasks).
HandlerLaunch ==
    /\ ppc = "launch"
    /\ IF containers_needed > 0
       THEN /\ running + containers_needed <= MaxRunning
            /\ \E failing \in FailurePatterns(containers_needed) :
                LET launched_tasks == launch_ecs_tasks(containers_needed, failing)
                IN  /\ attempts' = launched_tasks.attempts
                    /\ launched' = launched_tasks.launched
                    /\ failed_attempts' = failing
                    /\ running' = running + launched_tasks.launched
       ELSE /\ attempts' = 0
            /\ launched' = 0
            /\ failed_attempts' = {}
            /\ running' = running
    /\ ppc' = "return"
    /\ UNCHANGED <<pending_count, containers_needed, desired_count,
                   reset_time, prev_reset_time, prev_needed>>
    /\ UNCHANGED <<now, stale_count, reclaimed, reclaims>>
    /\ UNCHANGED row_vars
    /\ UNCHANGED worker_vars
    /\ UNCHANGED run_vars
    /\ UNCHANGED shutdown
    /\ UNCHANGED service_vars

\* handler: return {...}; finally: conn.close().  The locals of the invocation
\* end; the next invocation starts at its reset_stale_entries.
HandlerReturn ==
    /\ ppc = "return"
    /\ ppc' = "reset"
    /\ prev_needed' = containers_needed
    /\ pending_count' = 0
    /\ containers_needed' = 0
    /\ attempts' = 0
    /\ launched' = 0
    /\ failed_attempts' = {}
    /\ stale_count' = 0
    /\ reclaimed' = {}
    /\ UNCHANGED <<running, desired_count, reset_time, prev_reset_time>>
    /\ UNCHANGED <<now, reclaims>>
    /\ UNCHANGED row_vars
    /\ UNCHANGED worker_vars
    /\ UNCHANGED run_vars
    /\ UNCHANGED shutdown
    /\ UNCHANGED service_vars

\* A launched task ends: main() calls sys.exit(processor.run()).
TaskExit ==
    /\ running > 0
    /\ running' = running - 1
    /\ UNCHANGED <<pending_count, containers_needed, attempts, launched,
                   failed_attempts, desired_count, reset_time, prev_reset_time, prev_needed>>
    /\ UNCHANGED <<now, reclaims>>
    /\ UNCHANGED row_vars
    /\ UNCHANGED worker_vars
    /\ UNCHANGED poller_vars
    /\ UNCHANGED run_vars
    /\ UNCHANGED shutdown
    /\ UNCHANGED service_vars

\* Handler invocations one after the other on a table that no processor has
\* claimed from yet: up to MaxLeased rows are leased to a processor of an
\* earlier cycle, up to MaxBacklog rows are pending.  The leases are fresh and
\* go stale with the last tick of the clock; the desired count of the execution
\* collaborator is 0 or 1.
InitDispatch ==
    \E k \in 0..MaxLeased : \E n \in 0..MaxBacklog : \E d \in 0..1 :
        Backlog(k, n, "reset", (MaxTicks - 1) * TickMinutes, d)

NextDispatch ==
    \/ HandlerSweep
    \/ HandlerPending
    \/ HandlerCalculate
    \/ HandlerLaunch
    \/ HandlerReturn
    \/ TaskExit
    \/ Tick

SpecDispatch == InitDispatch /\ [][NextDispatch]_vars

\* One more processor than the retry limit allows claims, on a table small
\* enough for the clock to let every lease go stale.
InitAttempts == Produced(NumAttemptItems, NumAttemptWorkers, 0)

SpecAttempts == InitAttempts /\ [][Next]_vars

\* The handler's invocations side by side with processors that an earlier
\* invocation launched and that claim when they have started.
InitOrder == Produced(NumOrderItems, NumOrderWorkers, 0)

NextOrder ==
    \/ HandlerSweep
    \/ HandlerPending
    \/ HandlerCalculate
    \/ HandlerLaunch
    \/ HandlerReturn
    \/ TaskExit
    \/ \E w \in Workers : Claim(w)
    \/ \E w \in Workers : \E i \in Items : \E r \in Responses : ProcessEntry(w, i, r)
    \/ Tick

SpecOrder == InitOrder /\ [][NextOrder]_vars

\* ------------------------------------------------ crashed and hung processors
\* The processor's task is killed, or hangs for good, between claim_entries
\* and the end of process_batch: run() never returns, the rows it has not
\* marked yet keep its lease.
Crash(w) ==
    /\ pc[w] = "processing"
    /\ pc' = [pc EXCEPT ![w] = "crashed"]
    /\ UNCHANGED <<now, count_arg, entries, response, reclaims>>
    /\ UNCHANGED row_vars
    /\ UNCHANGED poller_vars
    /\ UNCHANGED run_vars
    /\ UNCHANGED dispatch_vars
    /\ UNCHANGED shutdown
    /\ UNCHANGED service_vars

InitLive == Produced(NumLiveItems, NumLiveWorkers, 0)

NextLive ==
    \/ \E w \in Workers : Claim(w)
    \/ \E w \in Workers : \E i \in Items : \E r \in Responses : ProcessEntry(w, i, r)
    \/ \E w \in Workers : Crash(w)
    \/ HandlerReset
    \/ HandlerCount
    \/ Tick

\* The schedule keeps invoking the handler (both of its statements run in every
\* invocation) and time passes; nothing is assumed of the processors.
SpecLive ==
    /\ InitLive
    /\ [][NextLive]_vars
    /\ WF_vars(Tick)
    /\ WF_vars(HandlerReset)
    /\ WF_vars(HandlerCount)

\* ------------------------------------------------------- the report service
\* The rows SELECT ... FROM V_PENDING_ADHOC_REPORTS returns.
V_PENDING_ADHOC_REPORTS ==
    {r \in Reports : trigger_type[r] = "ADHOC" /\ report_status[r] = "PENDING"}

\* The rows SELECT ... FROM V_DUE_SCHEDULED_REPORTS returns.
V_DUE_SCHEDULED_REPORTS ==
    {r \in Reports : /\ trigger_type[r] = "SCHEDULED"
                     /\ report_status[r] = "PENDING"
                     /\ due[r]}

\* cursor.fetchall(): the rows of S as a list; the rows are numbered in the
\* order of the query's ORDER BY.
FetchAll(S) == SelectSeq([r \in 1..Cardinality(Reports) |-> r], LAMBDA r : r \in S)

\* check_for_adhoc_work: the count, or 0 when the query raised.
check_for_adhoc_work(ok) == IF ok THEN Cardinality(V_PENDING_ADHOC_REPORTS) ELSE 0

\* check_for_scheduled_work: the count, or 0 when the query raised.
check_for_scheduled_work(ok) == IF ok THEN Cardinality(V_DUE_SCHEDULED_REPORTS) ELSE 0

\* get_adhoc_reports: the list, or [] when the query raised.
get_adhoc_reports(ok) == IF ok THEN FetchAll(V_PENDING_ADHOC_REPORTS) ELSE <<>>

\* get_scheduled_reports: the list, or [] when the query raised.
get_scheduled_reports(ok) == IF ok THEN FetchAll(V_DUE_SCHEDULED_REPORTS) ELSE <<>>

\* update_report_status that re-queues a failed report
update_report_status_Requeue(st, r, new, ok) ==
    IF ok THEN [st EXCEPT ![r] = IF new = "FAILED" THEN "PENDING" ELSE new] ELSE st

\* update_report_status: UPDATE REPORT_CONFIG SET STATUS = new WHERE
\* CONFIG_ID = r on the column st; nothing is written when the store raised.
update_report_status(st, r, new, ok) ==
    IF ok THEN [st EXCEPT ![r] = new] ELSE st

\* CALL UPDATE_NEXT_RUN_TIME(config_id, schedule_expression): NEXT_RUN_TIME
\* moves to the next time of the schedule, which has not come yet.
UPDATE_NEXT_RUN_TIME(d, r) == [d EXCEPT ![r] = FALSE]

\* The outcomes of update_scheduled_report_times: every statement ran and was
\* committed ("ok"); the connection or the first statement raised ("none");
\* a later statement raised after the first UPDATE was committed (autocommit
\* is the connector's default) ("partial").
ScheduleOutcomes == {"ok", "none", "partial"}

\* update_scheduled_report_times: STATUS = 'PENDING' on the column st.
update_scheduled_report_times(st, r, outcome) ==
    IF outcome = "none" THEN st ELSE [st EXCEPT ![r] = "PENDING"]

\* update_scheduled_report_times: the CALL of UPDATE_NEXT_RUN_TIME on the
\* column d, made when the row has a schedule expression.
update_next_run(d, r, outcome) ==
    IF outcome = "ok" /\ schedule_expression[r] # NULL
    THEN UPDATE_NEXT_RUN_TIME(d, r) ELSE d

\* run(): what follows the last read of the two counts a and c.
Decide(a, c) == IF a = 0 /\ c = 0 THEN "scale_down" ELSE "loop"

\* run(): what follows process_scheduled_reports, or its skipping.
AfterScheduled(s, tp) ==
    IF tp > 0 THEN "recheck_adhoc" ELSE Decide(adhoc_count[s], scheduled_count[s])

\* run(): what follows process_adhoc_reports, or its skipping, with
\* scheduled_count c.
AfterAdhoc(s, c, tp) ==
    IF c > 0 THEN "get_scheduled"
    ELSE IF tp > 0 THEN "recheck_adhoc" ELSE Decide(adhoc_count[s], c)

\* What follows one iteration of the for loop of process_*_reports at `at`,
\* with `rest` left of the list.
AfterReport(s, at, rest, tp) ==
    IF rest # <<>> THEN at
    ELSE IF at = "adhoc" THEN AfterAdhoc(s, scheduled_count[s], tp)
    ELSE AfterScheduled(s, tp)

\* A step of the report service, the producer or the trigger leaves the queue
\* table, the processors and the poller alone.
QueueUntouched ==
    /\ UNCHANGED <<now, reclaims, shutdown>>
    /\ UNCHANGED row_vars
    /\ UNCHANGED worker_vars
    /\ UNCHANGED poller_vars
    /\ UNCHANGED run_vars
    /\ UNCHANGED <<pending_count, containers_needed, attempts, launched, failed_attempts,
                   running, reset_time, prev_reset_time, prev_needed>>

\* while self.running: adhoc_count = self.check_for_adhoc_work()
CheckAdhoc(s, ok) ==
    /\ spc[s] = "loop"
    /\ self_running[s]
    /\ adhoc_count' = [adhoc_count EXCEPT ![s] = check_for_adhoc_work(ok)]
    /\ spc' = [spc EXCEPT ![s] = "check_scheduled"]
    /\ UNCHANGED <<self_running, scheduled_count, total_processed, reports, current,
                   generated_by, triggers, trigger_failed, desired_count>>
    /\ UNCHANGED report_row_vars
    /\ QueueUntouched
    /\ UNCHANGED fetch_vars
    /\ UNCHANGED invocation_vars

\* while self.running: the flag is False and run() leaves its loop.
LoopExit(s) ==
    /\ spc[s] = "loop"
    /\ ~self_running[s]
    /\ spc' = [spc EXCEPT ![s] = "stopped"]
    /\ UNCHANGED <<self_running, generated_by, triggers, trigger_failed, desired_count>>
    /\ UNCHANGED service_local_vars
    /\ UNCHANGED report_row_vars
    /\ QueueUntouched
    /\ UNCHANGED fetch_vars
    /\ UNCHANGED invocation_vars

\* scheduled_count = self.check_for_scheduled_work(); total_processed = 0
CheckScheduled(s, ok) ==
    /\ spc[s] = "check_scheduled"
    /\ scheduled_count' = [scheduled_count EXCEPT ![s] = check_for_scheduled_work(ok)]
    /\ total_processed' = [total_processed EXCEPT ![s] = 0]
    /\ spc' = [spc EXCEPT ![s] =
            IF adhoc_count[s] > 0 THEN "get_adhoc"
            ELSE AfterAdhoc(s, scheduled_count'[s], 0)]
    /\ UNCHANGED <<self_running, adhoc_count, reports, current,
                   generated_by, triggers, trigger_failed, desired_count>>
    /\ UNCHANGED report_row_vars
    /\ QueueUntouched
    /\ UNCHANGED fetch_vars
    /\ UNCHANGED invocation_vars

\* process_adhoc_reports: reports = self.get_adhoc_reports()
GetAdhoc(s, ok) ==
    /\ spc[s] = "get_adhoc"
    /\ reports' = [reports EXCEPT ![s] = get_adhoc_reports(ok)]
    /\ spc' = [spc EXCEPT ![s] = AfterReport(s, "adhoc", reports'[s], total_processed[s])]
    /\ UNCHANGED <<self_running, adhoc_count, scheduled_count, total_processed, current,
                   generated_by, triggers, trigger_failed, desired_count>>
    /\ UNCHANGED report_row_vars
    /\ QueueUntouched
    /\ UNCHANGED fetch_vars
    /\ UNCHANGED invocation_vars

\* process_scheduled_reports: reports = self.get_scheduled_reports()
GetScheduled(s, ok) ==
    /\ spc[s] = "get_scheduled"
    /\ reports' = [reports EXCEPT ![s] = get_scheduled_reports(ok)]
    /\ spc' = [spc EXCEPT ![s] = AfterReport(s, "scheduled", reports'[s], total_processed[s])]
    /\ UNCHANGED <<self_running, adhoc_count, scheduled_count, total_processed, current,
                   generated_by, triggers, trigger_failed, desired_count>>
    /\ UNCHANGED report_row_vars
    /\ QueueUntouched
    /\ UNCHANGED fetch_vars
    /\ UNCHANGED invocation_vars

\* for report in reports: if not self.update_report_status(config_id,
\* 'PROCESSING'): continue; otherwise generate_report is called.
StartReport(s, ok) ==
    /\ spc[s] \in {"adhoc", "scheduled"}
    /\ LET r == Head(reports[s])
           rest == Tail(reports[s])
       IN  /\ report_status' = update_report_status(report_status, r, "PROCESSING", ok)
           /\ reports' = [reports EXCEPT ![s] = rest]
           /\ current' = [current EXCEPT ![s] = IF ok THEN r ELSE NULL]
           /\ generated_by' = [generated_by EXCEPT ![r] = IF ok THEN @ \cup {s} ELSE @]
           /\ spc' = [spc EXCEPT ![s] =
                   IF ok THEN (IF spc[s] = "adhoc" THEN "adhoc_gen" ELSE "scheduled_gen")
                   ELSE AfterReport(s, spc[s], rest, total_processed[s])]
    /\ UNCHANGED <<self_running, adhoc_count, scheduled_count, total_processed,
                   triggers, trigger_failed, desired_count>>
    /\ UNCHANGED <<trigger_type, due, schedule_expression>>
    /\ QueueUntouched
    /\ UNCHANGED fetch_vars
    /\ UNCHANGED invocation_vars

\* generate_report returned: on success update_report_status(config_id,
\* 'COMPLETED'), for a SCHEDULED report followed by
\* update_scheduled_report_times(config_id), and processed_count += 1;
\* otherwise update_report_status(config_id, 'FAILED', result).
FinishReport(s, success, ok, outcome) ==
    /\ spc[s] \in {"adhoc_gen", "scheduled_gen"}
    /\ spc[s] = "adhoc_gen" => outcome = "none"
    /\ ~success => outcome = "none"
    /\ LET r == current[s]
           at == IF spc[s] = "adhoc_gen" THEN "adhoc" ELSE "scheduled"
           tp == IF success THEN total_processed[s] + 1 ELSE total_processed[s]
           marked == update_report_status(report_status, r,
                        IF success THEN "COMPLETED" ELSE "FAILED", ok)
       IN  /\ report_status' =
                IF success /\ at = "scheduled"
                THEN update_scheduled_report_times(marked, r, outcome) ELSE marked
           /\ due' = IF success /\ at = "scheduled" THEN update_next_run(due, r, outcome) ELSE due
           /\ total_processed' = [total_processed EXCEPT ![s] = tp]
           /\ current' = [current EXCEPT ![s] = NULL]
           /\ spc' = [spc EXCEPT ![s] = AfterReport(s, at, reports[s], tp)]
    /\ UNCHANGED <<self_running, adhoc_count, scheduled_count, reports,
                   generated_by, triggers, trigger_failed, desired_count>>
    /\ UNCHANGED <<trigger_type, schedule_expression>>
    /\ QueueUntouched
    /\ UNCHANGED fetch_vars
    /\ UNCHANGED invocation_vars

\* if total_processed > 0: adhoc_count = self.check_for_adhoc_work()
RecheckAdhoc(s, ok) ==
    /\ spc[s] = "recheck_adhoc"
    /\ adhoc_count' = [adhoc_count EXCEPT ![s] = check_for_adhoc_work(ok)]
    /\ spc' = [spc EXCEPT ![s] = "recheck_scheduled"]
    /\ UNCHANGED <<self_running, scheduled_count, total_processed, reports, current,
                   generated_by, triggers, trigger_failed, desired_count>>
    /\ UNCHANGED report_row_vars
    /\ QueueUntouched
    /\ UNCHANGED fetch_vars
    /\ UNCHANGED invocation_vars

\* if total_processed > 0: scheduled_count = self.check_for_scheduled_work()
RecheckScheduled(s, ok) ==
    /\ spc[s] = "recheck_scheduled"
    /\ scheduled_count' = [scheduled_count EXCEPT ![s] = check_for_scheduled_work(ok)]
    /\ spc' = [spc EXCEPT ![s] = Decide(adhoc_count[s], scheduled_count'[s])]
    /\ UNCHANGED <<self_running, adhoc_count, total_processed, reports, current,
                   generated_by, triggers, trigger_failed, desired_count>>
    /\ UNCHANGED report_row_vars
    /\ QueueUntouched
    /\ UNCHANGED fetch_vars
    /\ UNCHANGED invocation_vars

\* scale_down_when_idle and break: update_service(desiredCount=0), unless
\* ECS_SERVICE_ARN is not set or the call raised (ok is FALSE).
scale_down_when_idle(s, ok) ==
    /\ spc[s] = "scale_down"
    /\ desired_count' = IF ok THEN 0 ELSE desired_count
    /\ spc' = [spc EXCEPT ![s] = "stopped"]
    /\ UNCHANGED <<self_running, generated_by, triggers, trigger_failed>>
    /\ UNCHANGED service_local_vars
    /\ UNCHANGED report_row_vars
    /\ QueueUntouched
    /\ UNCHANGED fetch_vars
    /\ UNCHANGED invocation_vars

\* shutdown_handler: self.running = False
shutdown_handler(s) ==
    /\ spc[s] # "stopped"
    /\ self_running[s]
    /\ self_running' = [self_running EXCEPT ![s] = FALSE]
    /\ UNCHANGED <<spc, generated_by, triggers, trigger_failed, desired_count>>
    /\ UNCHANGED service_local_vars
    /\ UNCHANGED report_row_vars
    /\ QueueUntouched
    /\ UNCHANGED fetch_vars
    /\ UNCHANGED invocation_vars

\* The producer inserts an ADHOC row, which invokes the trigger handler.
Produce(r) ==
    /\ report_status[r] = "ABSENT"
    /\ triggers < MaxTriggers
    /\ report_status' = [report_status EXCEPT ![r] = "PENDING"]
    /\ triggers' = triggers + 1
    /\ UNCHANGED <<spc, self_running, generated_by, trigger_failed, desired_count>>
    /\ UNCHANGED service_local_vars
    /\ UNCHANGED <<trigger_type, due, schedule_expression>>
    /\ QueueUntouched
    /\ UNCHANGED fetch_vars
    /\ UNCHANGED invocation_vars

\* The NEXT_RUN_TIME of a SCHEDULED row comes, which invokes the trigger
\* handler.
ComesDue(r) ==
    /\ trigger_type[r] = "SCHEDULED"
    /\ ~due[r]
    /\ triggers < MaxTriggers
    /\ due' = [due EXCEPT ![r] = TRUE]
    /\ generated_by' = [generated_by EXCEPT ![r] = {}]
    /\ triggers' = triggers + 1
    /\ UNCHANGED <<spc, self_running, trigger_failed, desired_count>>
    /\ UNCHANGED service_local_vars
    /\ UNCHANGED <<report_status, trigger_type, schedule_expression>>
    /\ QueueUntouched
    /\ UNCHANGED fetch_vars
    /\ UNCHANGED invocation_vars

\* lambda_handler of the trigger: update_service(desiredCount=1), unless
\* ECS_SERVICE_ARN is not set, the service is not found or the call raised
\* (ok is FALSE).
lambda_handler(ok) ==
    /\ triggers > 0
    /\ triggers' = triggers - 1
    /\ desired_count' = IF ok THEN 1 ELSE desired_count
    /\ trigger_failed' = (trigger_failed \/ ~ok)
    /\ UNCHANGED <<spc, self_running, generated_by>>
    /\ UNCHANGED service_local_vars
    /\ UNCHANGED report_row_vars
    /\ QueueUntouched
    /\ UNCHANGED fetch_vars
    /\ UNCHANGED invocation_vars

\* The ECS service starts a task when its desired count is 1 and none runs:
\* main() constructs the service (self.running = True) and run() validates the
\* connection.
ServiceStart(s) ==
    /\ desired_count >= 1
    /\ \A t \in Services : spc[t] = "stopped"
    /\ \A t \in Services : s <= t
    /\ spc' = [spc EXCEPT ![s] = "loop"]
    /\ self_running' = [self_running EXCEPT ![s] = TRUE]
    /\ adhoc_count' = [adhoc_count EXCEPT ![s] = 0]
    /\ scheduled_count' = [scheduled_count EXCEPT ![s] = 0]
    /\ total_processed' = [total_processed EXCEPT ![s] = 0]
    /\ reports' = [reports EXCEPT ![s] = <<>>]
    /\ current' = [current EXCEPT ![s] = NULL]
    /\ UNCHANGED <<generated_by, triggers, trigger_failed, desired_count>>
    /\ UNCHANGED report_row_vars
    /\ QueueUntouched
    /\ UNCHANGED fetch_vars
    /\ UNCHANGED invocation_vars

\* REPORT_CONFIG holds n rows: ADHOC rows the producer has not inserted yet
\* and SCHEDULED rows that are not due yet, with or without a schedule
\* expression.  Of m report services the first k were started (more than one
\* runs while a deployment replaces a task); no trigger is outstanding.  The
\* rows are numbered in the order of the queries' ORDER BY clauses: all have
\* one priority, a row with a lower number was created later and runs earlier.
ReportConfig(n, m) ==
    \E k \in 1..m :
        /\ trigger_type \in [1..n -> {"ADHOC", "SCHEDULED"}]
        /\ report_status = [r \in 1..n |->
                IF trigger_type[r] = "ADHOC" THEN "ABSENT" ELSE "PENDING"]
        /\ due = [r \in 1..n |-> FALSE]
        /\ schedule_expression \in [1..n -> {NULL, 1}]
        /\ \A r \in 1..n : trigger_type[r] = "ADHOC" => schedule_expression[r] = NULL
        /\ spc = [s \in 1..m |-> IF s <= k THEN "loop" ELSE "stopped"]
        /\ self_running = [s \in 1..m |-> TRUE]
        /\ adhoc_count = [s \in 1..m |-> 0]
        /\ scheduled_count = [s \in 1..m |-> 0]
        /\ total_processed = [s \in 1..m |-> 0]
        /\ reports = [s \in 1..m |-> <<>>]
        /\ current = [s \in 1..m |-> NULL]
        /\ generated_by = [r \in 1..n |-> {}]
        /\ triggers = 0
        /\ trigger_failed = FALSE
        /\ report_priority = [r \in 1..n |-> 1]
        /\ created_timestamp = [r \in 1..n |-> n - r]
        /\ next_run_time = [r \in 1..n |-> IF trigger_type[r] = "ADHOC" THEN NULL ELSE r]
        /\ fetched = <<>>
        /\ handled = <<>>
        /\ NoInvocations

\* One report service on a REPORT_CONFIG of NumReports rows; the queue table
\* is empty, no processor runs and the desired count of the ECS service is 1.
InitReport == BacklogQueue(0, 0, "reset", 0, 1) /\ ReportConfig(NumReports, NumServices)

NextReport ==
    \/ \E s \in Services : \E ok \in BOOLEAN : CheckAdhoc(s, ok)
    \/ \E s \in Services : LoopExit(s)
    \/ \E s \in Services : \E ok \in BOOLEAN : CheckScheduled(s, ok)
    \/ \E s \in Services : \E ok \in BOOLEAN : GetAdhoc(s, ok)
    \/ \E s \in Services : \E ok \in BOOLEAN : GetScheduled(s, ok)
    \/ \E s \in Services : \E ok \in BOOLEAN : StartReport(s, ok)
    \/ \E s \in Services : \E success, ok \in BOOLEAN : \E outcome \in ScheduleOutcomes :
            FinishReport(s, success, ok, outcome)
    \/ \E s \in Services : \E ok \in BOOLEAN : RecheckAdhoc(s, ok)
    \/ \E s \in Services : \E ok \in BOOLEAN : RecheckScheduled(s, ok)
    \/ \E s \in Services : \E ok \in BOOLEAN : scale_down_when_idle(s, ok)
    \/ \E s \in Services : shutdown_handler(s)
    \/ \E r \in Reports : Produce(r)
    \/ \E r \in Reports : ComesDue(r)
    \/ \E ok \in BOOLEAN : lambda_handler(ok)
    \/ \E s \in Services : ServiceStart(s)

SpecReport == InitReport /\ [][NextReport]_vars

\* Two report services side by side on a REPORT_CONFIG of NumPairReports rows.
InitPair == BacklogQueue(0, 0, "reset", 0, 1) /\ ReportConfig(NumPairReports, NumPairServices)

SpecPair == InitPair /\ [][NextReport]_vars

\* ---------------------------------------------------------- shutdown signals
\* signal_handler of the processor: self.shutdown = True.  run() installs it
\* before its first step.
signal_handler(w) ==
    /\ pc[w] \in {"start", "processing"}
    /\ ~shutdown[w]
    /\ shutdown' = [shutdown EXCEPT ![w] = TRUE]
    /\ UNCHANGED <<now, reclaims>>
    /\ UNCHANGED row_vars
    /\ UNCHANGED worker_vars
    /\ UNCHANGED poller_vars
    /\ UNCHANGED run_vars
    /\ UNCHANGED dispatch_vars
    /\ UNCHANGED service_vars

\* A processor and a report service, each of which can be sent a termination
\* signal at any point of its run().
InitShutdown ==
    /\ ProducedQueue(NumShutdownItems, NumShutdownWorkers, 0)
    /\ ReportConfig(NumReports, NumServices)

NextShutdown ==
    \/ \E w \in Workers : signal_handler(w)
    \/ \E w \in Workers : Claim(w)
    \/ \E w \in Workers : \E i \in Items : \E r \in Responses : ProcessEntry(w, i, r)
    \/ \E s \in Services : shutdown_handler(s)
    \/ \E s \in Services : \E ok \in BOOLEAN : CheckAdhoc(s, ok)
    \/ \E s \in Services : LoopExit(s)
    \/ \E s \in Services : \E ok \in BOOLEAN : CheckScheduled(s, ok)
    \/ \E s \in Services : \E ok \in BOOLEAN : GetAdhoc(s, ok)
    \/ \E s \in Services : \E ok \in BOOLEAN : GetScheduled(s, ok)
    \/ \E s \in Services : \E ok \in BOOLEAN : StartReport(s, ok)
    \/ \E s \in Services : \E success, ok \in BOOLEAN : \E outcome \in ScheduleOutcomes :
            FinishReport(s, success, ok, outcome)
    \/ \E s \in Services : \E ok \in BOOLEAN : RecheckAdhoc(s, ok)
    \/ \E s \in Services : \E ok \in BOOLEAN : RecheckScheduled(s, ok)
    \/ \E s \in Services : \E ok \in BOOLEAN : scale_down_when_idle(s, ok)
    \/ \E r \in Reports : Produce(r)
    \/ \E r \in Reports : ComesDue(r)

SpecShutdown == InitShutdown /\ [][NextShutdown]_vars

\* ================================================================== claims
\* The step in which processor w's claim_entries ran.
ClaimStep(w) == pc[w] = "start" /\ pc'[w] # "start"
\* The step in which processor w's process_entry for row i marked the row.
MarkStep(w, i) == response[w][i] = "none" /\ response'[w][i] # "none"
\* The step in which the handler's reset_stale_entries ran.
ResetStep == ppc = "reset" /\ ppc' = "count"
\* The status process_entry asks the store to set after response r.
MarkOf(r) == IF r = "200" THEN "completed" ELSE "failed"
\* The retries a retry_count column stands for (NULL: none recorded yet).
RetriesOf(rc) == IF rc = NULL THEN 0 ELSE rc

\* C1 -- Mutual exclusion of Claim: processors that call claim_entries against
\* the same table (no reclaim or report in between) receive pairwise disjoint
\* sets of rows, and every returned row carries the processor_id of the one
\* processor that received it.
C1_MutualExclusion ==
    /\ \A a \in Workers : \A b \in Workers :
            a # b => entries[a] \cap entries[b] = {}
    /\ \A w \in Workers : \A i \in entries[w] : processor_id[i] = w

\* Two processors have claimed from the same table and each received rows.
C1_Witness ==
    \E a \in Workers : \E b \in Workers :
        /\ 1 < a /\ a < b
        /\ entries[a] # {} /\ entries[b] # {}

\* C2 -- Retry bound: a row that reset_stale_entries has reclaimed MaxRetries
\* times is no longer selected by claim_entries nor counted by
\* get_pending_entries_count, whatever retry_count it started with (NULL
\* included).
C2_RetryBound ==
    \A i \in Items :
        reclaims[i] >= MaxRetries => ~ClaimEligible(i) /\ ~CountedPending(i)

\* C3 -- Ownership guard: a mark_entry_completed or mark_entry_failed by a
\* processor that no longer owns the row changes nothing on it; a row owned by
\* processor b stays processing until b reports, and then carries the status b
\* set.
C3_OwnershipGuard ==
    /\ [](\A b \in Workers : \A i \in Items :
            OwnedBy(i, b) =>
                status[i] = (IF response[b][i] = "none" THEN "processing"
                             ELSE MarkOf(response[b][i])))
    /\ [][\A a \in Workers : \A i \in Items :
            (MarkStep(a, i) /\ processor_id[i] # a) => Row(i)' = Row(i)]_vars

\* Processor a reported on a row that had been reclaimed from it and claimed by
\* processor b, and the row is still processing under b.
C3_Witness ==
    \E a \in Workers : \E b \in Workers : \E i \in Items :
        /\ a # b
        /\ i \in entries[a] /\ i \in entries[b]
        /\ response[a][i] # "none"
        /\ response[b][i] = "none"
        /\ processor_id[i] = b
        /\ status[i] = "processing"

\* C4 -- Stale reclaim: reset_stale_entries changes exactly the rows that are
\* processing with claimed_at before now minus the threshold: each becomes
\* pending with processor_id and claimed_at NULL and retry_count one higher;
\* the count returned is the number of those rows; every other row is
\* unchanged.
C4_StaleReclaim ==
    [][ResetStep =>
        /\ \A i \in Items :
            IF status[i] = "processing" /\ claimed_at[i] # NULL
                    /\ claimed_at[i] < now - STALE_THRESHOLD_MINUTES
            THEN /\ status'[i] = "pending"
                 /\ processor_id'[i] = NULL
                 /\ claimed_at'[i] = NULL
                 /\ retry_count'[i] # NULL
                 /\ retry_count'[i] = RetriesOf(retry_count[i]) + 1
            ELSE Row(i)' = Row(i)
        /\ stale_count' = Cardinality({i \in Items :
                status[i] = "processing" /\ claimed_at[i] # NULL
                    /\ claimed_at[i] < now - STALE_THRESHOLD_MINUTES})]_vars

\* C5 -- Claim ordering: no eligible row that a claim_entries call leaves
\* unclaimed has a higher priority class (a smaller number), or the same class
\* and an earlier created_at, than a row the same call claimed.
C5_ClaimOrdering ==
    [][\A w \in Workers : ClaimStep(w) =>
        \A i \in entries'[w] : \A j \in Items \ entries'[w] :
            ClaimEligible(j) =>
                /\ ~(priority[j] < priority[i])
                /\ ~(priority[j] = priority[i] /\ created_at[j] < created_at[i])]_vars

\* C6 as stated -- every row claim_entries returns was pending with
\* retry_count < MaxRetries immediately before the call.
C6_ClaimedHadRetryBelowMax ==
    [][\A w \in Workers : ClaimStep(w) =>
        \A i \in entries'[w] :
            status[i] = "pending" /\ retry_count[i] # NULL
                /\ retry_count[i] < MaxRetries]_vars

\* C6 as amended -- claim_entries(count) returns at most count rows; every
\* returned row was pending with retry_count below MaxRetries or NULL
\* immediately before the call, and is processing with processor_id the caller
\* and claimed_at now immediately after; the rows not returned are unchanged.
C6_ClaimPostcondition ==
    [][\A w \in Workers : ClaimStep(w) =>
        /\ Cardinality(entries'[w]) <= count_arg'[w]
        /\ \A i \in entries'[w] :
            /\ status[i] = "pending"
            /\ (retry_count[i] = NULL \/ retry_count[i] < MaxRetries)
            /\ status'[i] = "processing"
            /\ processor_id'[i] = w
            /\ claimed_at'[i] = now
        /\ \A i \in Items \ entries'[w] : Row(i)' = Row(i)]_vars

\* A claim_entries call returned as many rows as its count allowed, one of them
\* with a NULL retry_count, and left an eligible row unclaimed.
C6_Witness ==
    \E w \in Workers :
        /\ w > 1
        /\ pc[w] = "processing"
        /\ Cardinality(entries[w]) = count_arg[w]
        /\ \E i \in entries[w] : retry_count[i] = NULL /\ processor_id[i] = w
        /\ \E j \in Items : ClaimEligible(j)

\* C7 -- Complete and Fail by the current owner: the row gets status completed
\* (after mark_entry_completed) or failed (after mark_entry_failed), and its
\* lease fields processor_id and claimed_at are NULL.
C7_CompleteFailClearLease ==
    \A w \in Workers : \A i \in entries[w] :
        (response[w][i] # "none" /\ status[i] \in {"completed", "failed"}) =>
            /\ status[i] = MarkOf(response[w][i])
            /\ processor_id[i] = NULL
            /\ claimed_at[i] = NULL

\* C8 -- Lease/status invariant: a row has status processing if and only if
\* its processor_id is not NULL.
C8_LeaseStatus ==
    \A i \in Items : status[i] = "processing" <=> processor_id[i] # NULL

\* C9 -- Lease-field pairing: processor_id and claimed_at of a row are both
\* NULL or both not NULL.
C9_LeasePairing ==
    \A i \in Items : processor_id[i] = NULL <=> claimed_at[i] = NULL

\* One row was reclaimed (its lease fields cleared) while another row still
\* carries a lease.
C9_Witness ==
    \E i \in Items : \E j \in Items :
        /\ reclaims[i] >= 1 /\ processor_id[i] = NULL /\ claimed_at[i] = NULL
        /\ processor_id[j] # NULL /\ claimed_at[j] # NULL

\* C10 -- Batch independence: in one process_batch every claimed row gets its
\* process_entry, and the status recorded on a row the processor still owns is
\* decided by that row's own external call alone: completed after a 200, failed
\* after a non-200 answer, a timeout or an exception.
C10_BatchIndependence ==
    \A w \in Workers : \A i \in entries[w] :
        /\ pc[w] = "done" => response[w][i] # "none"
        /\ (response[w][i] = "200" /\ processor_id[i] = w) => status[i] = "completed"
        /\ (response[w][i] \in {"non200", "timeout", "exception"} /\ processor_id[i] = w)
                => status[i] = "failed"

\* A processor finished a batch in which one call timed out and another
\* succeeded: the first row is failed, the second completed.
C10_Witness ==
    \E w \in Workers : \E i \in entries[w] : \E j \in entries[w] :
        /\ pc[w] = "done"
        /\ response[w][i] = "timeout" /\ status[i] = "failed"
        /\ response[w][j] = "200" /\ status[j] = "completed"

\* C11 -- Worker-count formula: calculate_containers_needed(pending) is 0 when
\* pending is 0, and otherwise the least number of containers of
\* ENTRIES_PER_CONTAINER entries that hold pending entries, capped at
\* MAX_CONTAINERS; 17 pending entries give 3 and 500 give 25.
C11_WorkerCountFormula ==
    ppc = "launch" =>
        /\ pending_count = 0 => containers_needed = 0
        /\ (0 < pending_count /\ pending_count <= ENTRIES_PER_CONTAINER * MAX_CONTAINERS) =>
                /\ ENTRIES_PER_CONTAINER * (containers_needed - 1) < pending_count
                /\ pending_count <= ENTRIES_PER_CONTAINER * containers_needed
        /\ pending_count > ENTRIES_PER_CONTAINER * MAX_CONTAINERS =>
                containers_needed = MAX_CONTAINERS
        /\ pending_count = 17 => containers_needed = 3
        /\ pending_count = 500 => containers_needed = 25

\* The handler sized a backlog of 500 entries at 25 containers.
C11_Witness ==
    ppc = "launch" /\ pending_count = 500 /\ containers_needed = 25

\* C12 -- Fan-out bound: over any sequence of handler invocations, the tasks
\* that were launched and have not exited never number more than
\* MAX_CONTAINERS.
C12_FanOutBound == running <= MAX_CONTAINERS

\* C13 -- Idempotent dispatch cycle: when two handler invocations in a row
\* sweep the table at the same minute, with no claim, report or new row in
\* between, the second computes the same containers_needed as the first and
\* its reset_stale_entries reclaims nothing.
C13_IdempotentCycle ==
    (ppc \in {"launch", "return"} /\ prev_needed # NULL
            /\ prev_reset_time = reset_time) =>
        /\ containers_needed = prev_needed
        /\ stale_count = 0

\* The first invocation reclaimed a stale row and sized the backlog of 17 rows
\* at 3 containers; the second invocation, at the same minute, sized it at 3.
C13_Witness ==
    /\ ppc = "return"
    /\ prev_reset_time = reset_time
    /\ \E i \in Items : reclaims[i] = 1
    /\ pending_count = 17
    /\ prev_needed = 3
    /\ containers_needed = 3

C15_DeadLetterStatus ==
    \A i \in Items :
        (retry_count[i] # NULL /\ retry_count[i] >= MaxRetries) => status[i] = "failed"

\* The step in which the store raised inside processor w's claim_entries.
ClaimFailureStep(w) == ~claim_error[w] /\ claim_error'[w]
\* The step in which the store raised inside processor w's mark of row i.
MarkFailureStep(w, i) == i \notin mark_error[w] /\ i \in mark_error'[w]
\* Processor w's claim_entries ran to its commit and returned no row.
EmptyClaim(w) ==
    /\ pc[w] = "done"
    /\ setup_error[w] = "none"
    /\ ~claim_error[w]
    /\ entries[w] = {}
\* What the caller of claim_entries got back, and what run() then returned.
ClaimResult(w) == <<entries[w], exit_code[w]>>
\* How the run of a processor that reached its claim ended.
Outcome(w) ==
    IF entries[w] = {} THEN "no work"
    ELSE IF \A i \in entries[w] : ResultStatus(response[w][i]) = "success"
         THEN "all succeeded"
         ELSE "some failed"

C17_StoreFailuresReported ==
    /\ \A a \in Workers : \A b \in Workers :
            (claim_error[a] /\ EmptyClaim(b)) => ClaimResult(a) # ClaimResult(b)
    /\ \A w \in Workers : \A i \in entries[w] :
            (response[w][i] # "none" /\ ResultStatus(response[w][i]) = "success") =>
                ~(status[i] = "processing" /\ processor_id[i] = w)

C19_ExitStatusDistinguishes ==
    \A a \in Workers : \A b \in Workers :
        (/\ pc[a] = "done" /\ setup_error[a] = "none"
         /\ pc[b] = "done" /\ setup_error[b] = "none"
         /\ Outcome(a) # Outcome(b))
            => exit_code[a] # exit_code[b]

\* C20 -- Fatal setup error: a run() whose certificate download failed or
\* whose store connection could not be opened has returned non-zero and has
\* issued no claim, and the step in which it failed changed no row.
C20_FatalSetupError ==
    /\ [](\A w \in Workers : setup_error[w] # "none" =>
            /\ pc[w] = "done"
            /\ exit_code[w] # NULL /\ exit_code[w] # 0
            /\ count_arg[w] = 0
            /\ entries[w] = {}
            /\ \A i \in Items : processor_id[i] # w)
    /\ [][\A w \in Workers :
            setup_error'[w] # setup_error[w] => row_vars' = row_vars]_vars

\* One processor failed to download its certificates and another to open its
\* connection, while a row was waiting to be claimed.
C20_Witness ==
    \E w \in Workers : \E v \in Workers :
        /\ setup_error[w] = "certificates"
        /\ setup_error[v] = "connection"
        /\ exit_code[w] = 1 /\ exit_code[v] = 1
        /\ \E i \in Items : ClaimEligible(i)

\* C24 -- Launch isolation: launch_ecs_tasks(n) makes exactly n run_task
\* calls, whichever of them fail, and the list it returns holds exactly the
\* calls that did not fail, so at most n.
C24_LaunchIsolation ==
    (ppc = "return" /\ containers_needed > 0) =>
        /\ attempts = containers_needed
        /\ failed_attempts \subseteq 1..attempts
        /\ launched = attempts - Cardinality(failed_attempts)
        /\ launched <= containers_needed

\* The first of three run_task calls failed; the two after it were made and
\* their tasks are in the returned list.
C24_Witness ==
    /\ ppc = "return"
    /\ containers_needed = 3
    /\ failed_attempts = {1}
    /\ attempts = 3
    /\ launched = 2

\* C26 -- Completed is terminal: once a row has status completed, no step of
\* claim_entries, mark_entry_completed, mark_entry_failed or
\* reset_stale_entries, by processors with pairwise distinct ids, changes its
\* status.
C26_CompletedTerminal ==
    [][\A i \in Items : status[i] = "completed" => status'[i] = "completed"]_vars

\* A row is completed under its second owner, long enough ago for a lease to
\* have gone stale, and its first owner, whose lease had been reclaimed, has
\* reported a failure for it.
C26_Witness ==
    \E a \in Workers : \E b \in Workers : \E i \in Items :
        /\ a # b
        /\ i \in entries[a] /\ i \in entries[b]
        /\ status[i] = "completed"
        /\ processor_id[i] = b
        /\ response[b][i] = "200"
        /\ response[a][i] \in {"non200", "timeout", "exception"}
        /\ SqlLt(claimed_at[i], now - STALE_THRESHOLD_MINUTES)
        /\ ppc = "count"

\* C27 -- retryCount accounting: a row's retry_count never decreases; each
\* reclaim of the row by reset_stale_entries raises it by exactly 1 (from 0
\* when none was recorded); every other statement, claim_entries,
\* mark_entry_completed and mark_entry_failed among them, leaves it unchanged
\* (no statement re-queues a row that was marked failed).
C27_RetryAccounting ==
    [][\A i \in Items :
        /\ RetriesOf(retry_count'[i]) >= RetriesOf(retry_count[i])
        /\ (ResetStep /\ IsStale(i)) =>
                /\ retry_count'[i] # NULL
                /\ retry_count'[i] = RetriesOf(retry_count[i]) + 1
        /\ ~(ResetStep /\ IsStale(i)) => retry_count'[i] = retry_count[i]]_vars

\* C28 -- Backlog equals claimable set: in every state of the table
\* get_pending_entries_count equals the number of rows a claim_entries with a
\* count no smaller than the table would return, and a claim_entries whose
\* count did not limit it returns exactly that many rows.
C28_BacklogEqualsClaimable ==
    /\ [](\A S \in ClaimSelections(Cardinality(Items)) :
            Cardinality(S) = get_pending_entries_count)
    /\ [][\A w \in Workers :
            (ClaimStep(w) /\ count_arg'[w] >= get_pending_entries_count) =>
                Cardinality(entries'[w]) = get_pending_entries_count]_vars

\* A claim_entries with room for two rows returned the one claimable row and
\* left a pending row whose retries are used up; the backlog is now 0.
C28_Witness ==
    \E w \in Workers : \E j \in Items :
        /\ w > 1
        /\ count_arg[w] = 2
        /\ Cardinality(entries[w]) = 1
        /\ status[j] = "pending" /\ retry_count[j] = MaxRetries
        /\ get_pending_entries_count = 0

\* C29 -- One attempt, one outcome: when a processor's run() has returned,
\* the external service was called for every row its claim_entries had
\* returned, once (an answer is recorded once), and with the answer one
\* mark_entry_completed or mark_entry_failed was issued for the row.
C29_OneAttemptOneOutcome ==
    \A w \in Workers :
        pc[w] = "done" => \A i \in entries[w] : response[w][i] # "none"
\* The lease of row i is held by a processor that crashed, and the clock has
\* room for the lease to go stale.
CrashedLease(i, w) ==
    /\ status[i] = "processing"
    /\ processor_id[i] = w
    /\ pc[w] = "crashed"
    /\ claimed_at[i] # NULL
    /\ claimed_at[i] + TickMinutes <= MaxTicks * TickMinutes

\* The row a crashed processor holds is eventually pending again.
CrashedLeaseReclaimed ==
    \A i \in 1..NumLiveItems : \A w \in 1..NumLiveWorkers :
        CrashedLease(i, w) ~> (status[i] = "pending")

\* C25 -- Crash recovery liveness: a row claimed by a processor that crashes or
\* hangs without marking it is, as long as the handler keeps being invoked and
\* time advances, eventually pending again, and the step that makes it pending
\* raises its retry_count by 1 (from 0 when none was recorded).
C25_CrashRecovery ==
    /\ CrashedLeaseReclaimed
    /\ [][\A i \in Items :
            (status[i] = "processing" /\ status'[i] = "pending") =>
                /\ retry_count'[i] # NULL
                /\ retry_count'[i] = RetriesOf(retry_count[i]) + 1]_vars

\* The step in which report service s fetched a list of reports to process.
FetchStep(s) == spc[s] \in {"get_adhoc", "get_scheduled"} /\ spc'[s] # spc[s]

\* No processor whose shutdown flag is set calls claim_entries.
ProcessorStopsClaiming ==
    [][\A w \in Workers : shutdown[w] => ~ClaimStep(w)]_vars

\* No report service whose running flag was cleared fetches a list of reports.
ServiceStopsFetching ==
    [][\A s \in Services : ~self_running[s] => ~FetchStep(s)]_vars

\* C21 -- Cooperative shutdown: once a termination signal has set the flag, the
\* processor calls no claim_entries and the report service fetches no further
\* list of reports (a signal during the ADHOC reports stops the fetch of the
\* SCHEDULED ones); what is in flight finishes: a processor that is done has
\* an answer for each of its rows, a report service that stopped has no
\* generate_report under way.
C21_CooperativeShutdown ==
    /\ ProcessorStopsClaiming
    /\ ServiceStopsFetching
    /\ [](\A w \in 1..NumShutdownWorkers :
            pc[w] = "done" => \A i \in entries[w] : response[w][i] # "none")
    /\ [](\A s \in 1..NumServices : spc[s] = "stopped" => current[s] = NULL)

\* The step in which report service s set report r to PROCESSING and called
\* generate_report for it.
PickStep(s, r) == current[s] # r /\ current'[s] = r

\* No ADHOC report has had generate_report called for it by two services.
AdhocGeneratedOnce ==
    \A r \in Reports : trigger_type[r] = "ADHOC" => Cardinality(generated_by[r]) <= 1

\* C23 -- Exclusive ownership in the report service: of two report services
\* that run against the same REPORT_CONFIG no two call generate_report for the
\* same report (of one due time, for a SCHEDULED report), and no service picks
\* up a report that is PROCESSING.
C23_ExclusiveOwnership ==
    /\ [](\A r \in 1..NumPairReports : Cardinality(generated_by[r]) <= 1)
    /\ [][\A s \in Services : \A r \in Reports :
            PickStep(s, r) => report_status[r] # "PROCESSING"]_vars

\* The step in which report service s finished a successful generate_report
\* of the SCHEDULED report r (processed_count += 1).
RearmStep(s, r) ==
    /\ spc[s] = "scheduled_gen"
    /\ current[s] = r
    /\ total_processed'[s] = total_processed[s] + 1

\* Row i of the queue table is set back to pending.
QueueRequeued(i) == status[i] # "pending" /\ status'[i] = "pending"

\* Report r, which was inserted and is not PENDING, is set back to PENDING.
ReportRequeued(r) ==
    /\ report_status[r] \notin {"ABSENT", "PENDING"}
    /\ report_status'[r] = "PENDING"

\* C22 (as stated) -- No worker-side requeue: no step of the processor or of
\* the report service sets a row of the queue table or a report back to
\* pending.
C22_NoWorkerRequeue ==
    [][/\ \A i \in Items : ~QueueRequeued(i)
       /\ \A r \in Reports : ~ReportRequeued(r)]_vars

\* C22 (amended) -- No step of the processor sets a row of the queue table
\* back to pending, and the only step of the report service that sets a report
\* back to PENDING is update_scheduled_report_times after a successful
\* generate_report of a SCHEDULED report; the ADHOC loop and the failure paths
\* never do.
C22_RequeueOnlyByReschedule ==
    [][/\ \A i \in Items : ~QueueRequeued(i)
       /\ \A r \in Reports : ReportRequeued(r) =>
            /\ trigger_type[r] = "SCHEDULED"
            /\ \E s \in Services : RearmStep(s, r)]_vars

\* A processor has marked a row, and a SCHEDULED report that was generated is
\* PENDING again with its next run time moved on.
C22_Witness ==
    /\ \E i \in Items : status[i] \in {"completed", "failed"}
    /\ \E r \in Reports :
        /\ trigger_type[r] = "SCHEDULED"
        /\ generated_by[r] # {}
        /\ report_status[r] = "PENDING"
        /\ ~due[r]

\* The step in which report service s set the desired count to 0.
ScaleDownStep(s) ==
    /\ spc[s] = "scale_down"
    /\ spc'[s] = "stopped"
    /\ desired_count # 0
    /\ desired_count' = 0

\* REPORT_CONFIG holds a pending ADHOC report or a due SCHEDULED report.
WorkInStore == V_PENDING_ADHOC_REPORTS # {} \/ V_DUE_SCHEDULED_REPORTS # {}

\* Nothing is left to run: no report service runs, every invocation of the
\* trigger handler has run and set the desired count, and the desired count
\* is 0.
SettledAtZero ==
    /\ \A s \in Services : spc[s] = "stopped"
    /\ triggers = 0
    /\ ~trigger_failed
    /\ desired_count = 0

\* C30 -- Idle scale-down only without work: the report service sets the
\* desired count to 0 only in a state of REPORT_CONFIG with no pending ADHOC
\* and no due SCHEDULED report (a failed count query does not make it scale
\* down past work), and with a producer and a trigger handler running beside
\* it the system never comes to rest at desired count 0 with such a report in
\* the table.
C30_ScaleDownOnlyWhenIdle ==
    /\ [][\A s \in Services : ScaleDownStep(s) => ~WorkInStore]_vars
    /\ [](SettledAtZero => ~WorkInStore)

\* C37 -- Failed is final: a row that its owner marked failed is, whatever its
\* retry_count, selected by no later claim_entries, changed by no
\* reset_stale_entries (nor by any other statement) and not counted by
\* get_pending_entries_count.
C37_FailedIsFinal ==
    /\ [](\A i \in Items : status[i] = "failed" =>
            ~ClaimEligible(i) /\ ~IsStale(i) /\ ~CountedPending(i))
    /\ [][\A i \in Items : status[i] = "failed" =>
            /\ Row(i)' = Row(i)
            /\ \A w \in Workers : ClaimStep(w) => i \notin entries'[w]]_vars

\* A row that was reclaimed once is failed under its second owner; its lease
\* fields are old enough for a stale lease, and reset_stale_entries has run.
C37_Witness ==
    \E b \in Workers : \E i \in Items :
        /\ status[i] = "failed"
        /\ processor_id[i] = b
        /\ response[b][i] \in {"non200", "timeout", "exception"}
        /\ reclaims[i] >= 1
        /\ SqlLt(claimed_at[i], now - STALE_THRESHOLD_MINUTES)
        /\ ppc = "count"

\* C38 -- Late duplicate work after reclaim is harmless to state: when the
\* lease of processor a on a row was reclaimed and a then finishes its external
\* call, a's mark_entry_completed or mark_entry_failed leaves the row's status,
\* processor_id, claimed_at and retry_count as they were, whether or not
\* another processor has claimed the row since.
C38_LateMarkHarmless ==
    [][\A a \in Workers : \A i \in Items :
        (MarkStep(a, i) /\ i \in entries[a] /\ reclaims[i] > 0 /\ processor_id[i] # a) =>
            /\ status'[i] = status[i]
            /\ processor_id'[i] = processor_id[i]
            /\ claimed_at'[i] = claimed_at[i]
            /\ retry_count'[i] = retry_count[i]]_vars

\* Processor a reported on a row that had been reclaimed from it and that no
\* processor has claimed since: the row is still pending and not leased.
C38_Witness ==
    \E a \in Workers : \E i \in Items :
        /\ i \in entries[a]
        /\ response[a][i] # "none"
        /\ reclaims[i] > 0
        /\ status[i] = "pending"
        /\ processor_id[i] = NULL
        /\ \A b \in Workers \ {a} : i \notin entries[b]

\* The processors that claim_entries returned row i to.
ClaimedBy(i) == {w \in Workers : i \in entries[w]}

\* The processors that called the external service for row i.
CalledBy(i) == {w \in Workers : response[w][i] # "none"}

\* C36 -- Bounded attempts: a row whose retry_count started at 0 (it is a
\* number, where a row that started at NULL stays NULL) is returned by
\* claim_entries at most MaxRetries times in all, and the external service is
\* called for it at most MaxRetries times.
C36_BoundedAttempts ==
    \A i \in Items : retry_count[i] # NULL =>
        /\ Cardinality(ClaimedBy(i)) <= MaxRetries
        /\ Cardinality(CalledBy(i)) <= MaxRetries

\* A row was claimed and called for MaxRetries times and reclaimed each time;
\* it is pending, and a further processor's claim_entries returned nothing.
C36_Witness ==
    \E i \in Items : \E w \in Workers :
        /\ retry_count[i] = MaxRetries
        /\ status[i] = "pending"
        /\ Cardinality(ClaimedBy(i)) = MaxRetries
        /\ Cardinality(CalledBy(i)) = MaxRetries
        /\ pc[w] = "done" /\ entries[w] = {}

\* ------------------------------------------------ the order of the handler's steps
\* The statements of handler() in program order.
HandlerOrder ==
    {<<"reset", "count">>, <<"count", "calculate">>, <<"calculate", "launch">>,
     <<"launch", "return">>, <<"return", "reset">>}

\* The step in which get_pending_entries_count runs.
CountStep == ppc = "count" /\ ppc' = "calculate"

\* The handler's statements run in program order, rows are reclaimed in the
\* first of them only, and tasks are launched in the launch statement only.
StepsInOrder ==
    /\ ppc' # ppc => <<ppc, ppc'>> \in HandlerOrder
    /\ reclaims' # reclaims => ResetStep
    /\ running' > running => (ppc = "launch" /\ ppc' = "return")
    /\ (ppc = "calculate" /\ ppc' = "launch") =>
            containers_needed' = calculate_containers_needed(pending_count)

\* The rows this invocation reclaimed that are under the retry limit.
ReclaimedUnderLimit == {i \in reclaimed : SqlLt(retry_count[i], MaxRetries)}

\* C35 (as stated) -- the handler's statements run in order, so every row the
\* invocation reclaimed that is under the retry limit is counted by the same
\* invocation's get_pending_entries_count.
C35_ReclaimedCountedSameCycle ==
    [][/\ StepsInOrder
       /\ CountStep => \A i \in ReclaimedUnderLimit : CountedPending(i)]_vars

\* C35 (amended) -- the handler's statements run in order, and every row the
\* invocation reclaimed that is under the retry limit is counted by the same
\* invocation's get_pending_entries_count unless a processor has claimed it
\* since the reclaim; the number of tasks is computed from that count.
C35_ReclaimedCountedUnlessClaimed ==
    [][/\ StepsInOrder
       /\ CountStep =>
            /\ \A i \in ReclaimedUnderLimit :
                    \/ CountedPending(i)
                    \/ status[i] # "pending" /\ processor_id[i] # NULL /\ ClaimedBy(i) # {}
            /\ pending_count' >= Cardinality({i \in ReclaimedUnderLimit : CountedPending(i)})]_vars

\* The invocation reclaimed a row under the retry limit, counted it and
\* computed at least one task for it.
C35_Witness ==
    /\ ppc = "launch"
    /\ ReclaimedUnderLimit # {}
    /\ pending_count >= 1
    /\ containers_needed >= 1

\* ------------------------------------------------ the order of the report lists
\* ORDER BY PRIORITY ASC, CREATED_TIMESTAMP DESC: row a sorts strictly before row b.
AdhocBefore(a, b) ==
    \/ report_priority[a] < report_priority[b]
    \/ /\ report_priority[a] = report_priority[b]
       /\ created_timestamp[a] > created_timestamp[b]

\* ORDER BY NEXT_RUN_TIME ASC NULLS FIRST: row a sorts strictly before row b.
ScheduledBefore(a, b) ==
    \/ next_run_time[a] = NULL /\ next_run_time[b] # NULL
    \/ /\ next_run_time[a] # NULL /\ next_run_time[b] # NULL
       /\ next_run_time[a] < next_run_time[b]

\* cursor.fetchall() of a query with an ORDER BY: the lists of the rows of S in
\* which no row comes after a row it sorts strictly before (the pairs of
\* `before`); rows that compare equal come in any order.
OrderedLists(S, before) ==
    {q \in [1..Cardinality(S) -> S] :
        /\ \A i, j \in 1..Cardinality(S) : q[i] = q[j] => i = j
        /\ \A i, j \in 1..Cardinality(S) : i < j => <<q[j], q[i]>> \notin before}

\* get_adhoc_reports: the lists the query can return, or [] when it raised.
AdhocQuery(ok) ==
    IF ok THEN OrderedLists(V_PENDING_ADHOC_REPORTS,
                            {p \in Reports \X Reports : AdhocBefore(p[1], p[2])})
    ELSE {<<>>}

\* get_scheduled_reports: the lists the query can return, or [] when it raised.
ScheduledQuery(ok) ==
    IF ok THEN OrderedLists(V_DUE_SCHEDULED_REPORTS,
                            {p \in Reports \X Reports : ScheduledBefore(p[1], p[2])})
    ELSE {<<>>}

\* The NEXT_RUN_TIME that UPDATE_NEXT_RUN_TIME computes: a time that has not come.
NextRunTime == MaxTimestamp + 1

\* REPORT_CONFIG holds n pending rows, ADHOC rows of any priority and creation
\* time and SCHEDULED rows that are due, with any NEXT_RUN_TIME or none; no
\* report service loop runs but the two process_*_reports calls below.
FetchConfig(n) ==
    /\ trigger_type \in [1..n -> {"ADHOC", "SCHEDULED"}]
    /\ report_status = [r \in 1..n |-> "PENDING"]
    /\ due = [r \in 1..n |-> trigger_type[r] = "SCHEDULED"]
    /\ schedule_expression = [r \in 1..n |-> IF trigger_type[r] = "ADHOC" THEN NULL ELSE 1]
    /\ report_priority \in [1..n -> 1..NumPriorities]
    /\ created_timestamp \in [1..n -> 1..MaxTimestamp]
    /\ next_run_time \in [1..n -> {NULL} \cup 1..MaxTimestamp]
    /\ \A r \in 1..n : IF trigger_type[r] = "ADHOC"
                         THEN next_run_time[r] = NULL
                         ELSE report_priority[r] = 1 /\ created_timestamp[r] = 1
    /\ spc = <<>>
    /\ self_running = <<>>
    /\ adhoc_count = <<>>
    /\ scheduled_count = <<>>
    /\ total_processed = <<>>
    /\ reports = <<>>
    /\ current = <<>>
    /\ generated_by = [r \in 1..n |-> {}]
    /\ triggers = 0
    /\ trigger_failed = FALSE
    /\ fetched = <<>>
    /\ handled = <<>>
    /\ NoInvocations

InitFetch == BacklogQueue(0, 0, "reset", 0, 1) /\ FetchConfig(NumFetchReports)

\* The steps below leave the service's loop, the triggers and the queue alone.
FetchFrame ==
    /\ UNCHANGED <<trigger_type, schedule_expression, report_priority, created_timestamp>>
    /\ UNCHANGED <<spc, self_running, adhoc_count, scheduled_count, total_processed,
                   reports, current, generated_by, triggers, trigger_failed, desired_count>>
    /\ UNCHANGED invocation_vars
    /\ QueueUntouched

\* process_adhoc_reports: reports = self.get_adhoc_reports()
ProcessAdhocFetch(q) ==
    /\ Len(handled) = Len(fetched)
    /\ fetched' = q
    /\ handled' = <<>>
    /\ UNCHANGED <<report_status, due, next_run_time>>
    /\ FetchFrame

\* process_scheduled_reports: reports = self.get_scheduled_reports()
ProcessScheduledFetch(q) ==
    /\ Len(handled) = Len(fetched)
    /\ fetched' = q
    /\ handled' = <<>>
    /\ UNCHANGED <<report_status, due, next_run_time>>
    /\ FetchFrame

\* One iteration of `for report in reports` of process_*_reports: the report
\* is set PROCESSING (or skipped when that fails), generated, and set
\* COMPLETED or FAILED; a SCHEDULED report that succeeded is re-armed.
ProcessNext(ok, success, marked_ok, outcome) ==
    /\ Len(handled) < Len(fetched)
    /\ ~(ok /\ success) => outcome = "none"
    /\ ~ok => ~success /\ ~marked_ok
    /\ LET r == fetched[Len(handled) + 1]
           scheduled == trigger_type[r] = "SCHEDULED"
           processing == update_report_status(report_status, r, "PROCESSING", ok)
           marked == update_report_status(processing, r,
                        IF success THEN "COMPLETED" ELSE "FAILED", marked_ok)
       IN  /\ ~scheduled => outcome = "none"
           /\ handled' = Append(handled, r)
           /\ report_status' =
                IF ~ok THEN report_status
                ELSE IF success /\ scheduled
                     THEN update_scheduled_report_times(marked, r, outcome)
                     ELSE marked
           /\ due' = IF ok /\ success /\ scheduled
                     THEN update_next_run(due, r, outcome) ELSE due
           /\ next_run_time' = [next_run_time EXCEPT ![r] =
                    IF due'[r] # due[r] THEN NextRunTime ELSE @]
    /\ UNCHANGED fetched
    /\ FetchFrame

NextFetch ==
    \/ \E ok \in BOOLEAN : \E q \in AdhocQuery(ok) : ProcessAdhocFetch(q)
    \/ \E ok \in BOOLEAN : \E q \in ScheduledQuery(ok) : ProcessScheduledFetch(q)
    \/ \E ok, success, marked_ok \in BOOLEAN : \E outcome \in ScheduleOutcomes :
            ProcessNext(ok, success, marked_ok, outcome)

SpecFetch == InitFetch /\ [][NextFetch]_vars

\* The list was returned and the loop has not taken a report from it yet.
JustFetched(type) ==
    /\ fetched # <<>>
    /\ handled = <<>>
    /\ \A k \in 1..Len(fetched) : trigger_type[fetched[k]] = type

\* The for loop takes the reports in the order of the list.
HandledInOrder == handled = SubSeq(fetched, 1, Len(handled))

\* C33 -- get_scheduled_reports returns the due reports in ascending
\* NEXT_RUN_TIME, and a report without NEXT_RUN_TIME comes after every report
\* that has one.
C33_ScheduledNullsLast ==
    JustFetched("SCHEDULED") =>
        \A i, j \in 1..Len(fetched) : i < j =>
            LET a == next_run_time[fetched[i]]
                b == next_run_time[fetched[j]]
            IN  /\ a = NULL => b = NULL
                /\ (a # NULL /\ b # NULL) => a <= b

\* C34 -- get_adhoc_reports returns the pending reports by priority and,
\* within one priority, oldest first; process_adhoc_reports takes them in the
\* order of the list.
C34_AdhocFifo ==
    /\ HandledInOrder
    /\ JustFetched("ADHOC") =>
            \A i, j \in 1..Len(fetched) : i < j =>
                LET a == fetched[i]
                    b == fetched[j]
                IN  \/ report_priority[a] < report_priority[b]
                    \/ /\ report_priority[a] = report_priority[b]
                       /\ created_timestamp[a] <= created_timestamp[b]

\* ------------------------------------------------ the trigger handlers' responses
\* str.upper() on the trigger types a caller sends.
Upper(x) == IF x = "adhoc" THEN "ADHOC" ELSE IF x = "scheduled" THEN "SCHEDULED" ELSE x

\* An event of the trigger: pathParameters['trigger_type'], the type named in
\* event['resource'], and the body's trigger_type ("absent": the event has
\* none, "nonstring": a JSON value without upper()), and the request id of
\* the invocation's context.
Events ==
    [path : {"absent", "adhoc", "scheduled"},
     resource : {"absent", "adhoc", "scheduled"},
     body : {"absent", "adhoc", "scheduled", "nonstring"},
     request_id : 1..NumRequests]

\* What the handler's surroundings do: ECS_SERVICE_ARN is unset ("no_arn"),
\* describe_services fails ("describe"), update_service raises ("update"), or
\* nothing fails ("none").
Faults == {"none", "no_arn", "describe", "update"}

\* extract_trigger_type without its try/except: upper() of a body value that
\* is not a string raises.
extract_trigger_type_Unguarded(e) ==
    LET from_path == IF e.path # "absent" THEN Upper(e.path) ELSE "ADHOC"
        from_resource == IF e.resource = "adhoc" THEN "ADHOC"
                         ELSE IF e.resource = "scheduled" THEN "SCHEDULED"
                         ELSE from_path
    IN  IF e.body = "absent" THEN from_resource
        ELSE IF e.body = "nonstring" THEN "RAISED"
        ELSE Upper(e.body)

\* extract_trigger_type: 'ADHOC' unless the path parameters, then the resource
\* path, then the body name a type; an exception on the way is caught and the
\* type found so far is returned.
extract_trigger_type(e) ==
    LET from_path == IF e.path # "absent" THEN Upper(e.path) ELSE "ADHOC"
        from_resource == IF e.resource = "adhoc" THEN "ADHOC"
                         ELSE IF e.resource = "scheduled" THEN "SCHEDULED"
                         ELSE from_path
    IN  IF e.body = "absent" THEN from_resource
        ELSE IF e.body = "nonstring" THEN from_resource
        ELSE Upper(e.body)

\* What an invocation returns: the status code (NULL: the handler raised), the
\* request id and the trigger type in the body (NULL, "absent": not in it), and whether
\* update_service(desiredCount=1) was carried out.
Response(code, id, type, updated) ==
    [statusCode |-> code, request_id |-> id, trigger_type |-> type, updated |-> updated]

\* lambda_handler of lambda/trigger_lambda.py.  Its except clause calls
\* extract_trigger_type again, outside any try.
trigger_lambda_handler(e, fault) ==
    LET type == extract_trigger_type(e)
    IN  IF type = "RAISED" THEN Response(NULL, NULL, "absent", FALSE)
        ELSE IF fault = "no_arn" THEN Response(500, e.request_id, "absent", FALSE)
        ELSE IF fault = "describe" THEN Response(500, e.request_id, "absent", FALSE)
        ELSE IF fault = "update" THEN Response(500, e.request_id, "absent", FALSE)
        ELSE Response(200, e.request_id, type, TRUE)

\* lambda_handler of terraform/index.py: the trigger type is read in the
\* handler's own try block, from the path parameters and the body; the
\* request id is in the success message (under 'timestamp') and in no error
\* message; describe_services is not called.  The message is the same in the
\* Snowflake and in the API Gateway format of the response.
terraform_lambda_handler(e, fault) ==
    LET from_path == IF e.path # "absent" THEN Upper(e.path) ELSE "ADHOC"
        type == IF e.body = "absent" THEN from_path
                ELSE IF e.body = "nonstring" THEN "RAISED"
                ELSE Upper(e.body)
    IN  IF type = "RAISED" THEN Response(500, NULL, "absent", FALSE)
        ELSE IF fault = "no_arn" THEN Response(500, NULL, "absent", FALSE)
        ELSE IF fault = "update" THEN Response(500, NULL, "absent", FALSE)
        ELSE Response(200, e.request_id, type, TRUE)

\* NumRequests events reach one of the two handlers, each with its own
\* request id; they differ in nothing but the fields that carry the trigger
\* type, and the surroundings do the same for each of them.
InitTrigger ==
    /\ \E d \in 0..1 : BacklogQueue(0, 0, "reset", 0, d)
    /\ report_status = <<>>
    /\ trigger_type = <<>>
    /\ due = <<>>
    /\ schedule_expression = <<>>
    /\ spc = <<>>
    /\ self_running = <<>>
    /\ adhoc_count = <<>>
    /\ scheduled_count = <<>>
    /\ total_processed = <<>>
    /\ reports = <<>>
    /\ current = <<>>
    /\ generated_by = <<>>
    /\ triggers = 0
    /\ trigger_failed = FALSE
    /\ report_priority = <<>>
    /\ created_timestamp = <<>>
    /\ next_run_time = <<>>
    /\ fetched = <<>>
    /\ handled = <<>>
    /\ trigger_env \in [handler : {"trigger_lambda", "terraform"}, fault : Faults]
    /\ requests \in [1..NumRequests -> Events]
    /\ \A k \in 1..NumRequests :
            /\ requests[k].request_id = k
            /\ trigger_env.handler = "terraform" => requests[k].resource = "absent"
    /\ responses = <<>>

\* An invocation leaves the report table, the services and the queue alone.
TriggerFrame ==
    /\ UNCHANGED <<report_status, trigger_type, due, schedule_expression,
                   spc, self_running, adhoc_count, scheduled_count, total_processed,
                   reports, current, generated_by, triggers, trigger_failed>>
    /\ UNCHANGED fetch_vars
    /\ UNCHANGED <<trigger_env, requests>>
    /\ UNCHANGED <<now, reclaims, shutdown>>
    /\ UNCHANGED row_vars
    /\ UNCHANGED worker_vars
    /\ UNCHANGED poller_vars
    /\ UNCHANGED run_vars
    /\ UNCHANGED <<pending_count, containers_needed, attempts, launched, failed_attempts,
                   running, reset_time, prev_reset_time, prev_needed>>

\* One invocation of lambda/trigger_lambda.py's handler, with event k.
TriggerLambda(k) ==
    /\ trigger_env.handler = "trigger_lambda"
    /\ k \notin DOMAIN responses
    /\ LET result == trigger_lambda_handler(requests[k], trigger_env.fault)
       IN  /\ responses' = responses @@ (k :> result)
           /\ desired_count' = IF result.updated THEN 1 ELSE desired_count
    /\ TriggerFrame

\* One invocation of terraform/index.py's handler, with event k.
TerraformLambda(k) ==
    /\ trigger_env.handler = "terraform"
    /\ k \notin DOMAIN responses
    /\ LET result == terraform_lambda_handler(requests[k], trigger_env.fault)
       IN  /\ responses' = responses @@ (k :> result)
           /\ desired_count' = IF result.updated THEN 1 ELSE desired_count
    /\ TriggerFrame

NextTrigger ==
    \/ \E k \in 1..NumRequests : TriggerLambda(k)
    \/ \E k \in 1..NumRequests : TerraformLambda(k)

SpecTrigger == InitTrigger /\ [][NextTrigger]_vars

\* C31 -- every response of a trigger handler, on success and on every error
\* path, carries status code 200 or 500 and the request id of its invocation.
C31_StructuredResponse ==
    \A k \in DOMAIN responses :
        /\ responses[k].statusCode \in {200, 500}
        /\ responses[k].statusCode = 200 <=> responses[k].updated
        /\ responses[k].request_id = requests[k].request_id

\* C32 -- two requests to lambda/trigger_lambda.py's handler that differ only
\* in their trigger type get the same status code and the same capacity
\* change, which on success is desired count 1; only the label differs.
C32_TriggerTypeIsLabel ==
    \A k, l \in DOMAIN responses :
        trigger_env.handler = "trigger_lambda" =>
            /\ responses[k].statusCode = responses[l].statusCode
            /\ responses[k].updated = responses[l].updated
            /\ responses[k].updated => desired_count = 1
            /\ responses[k].statusCode = 200 =>
                    responses[k].trigger_type = extract_trigger_type(requests[k])

\* Two requests with different trigger types, one of them with a body value
\* that is no string, were both answered 200 and the desired count is 1.
C32_Witness ==
    /\ \E k, l \in DOMAIN responses :
            /\ trigger_env.handler = "trigger_lambda"
            /\ requests[k].body = "nonstring"
            /\ responses[k].trigger_type = "ADHOC"
            /\ responses[l].trigger_type = "SCHEDULED"
            /\ responses[k].statusCode = 200 /\ responses[l].statusCode = 200
            /\ desired_count = 1

\* ------------------------------------------------ the end of the service's loop
\* REPORT_CONFIG holds NumReports rows, all pending, the SCHEDULED ones due and
\* with or without a schedule expression; nothing is inserted and nothing
\* more comes due.  One report service is in its loop.
InitTerminate ==
    /\ BacklogQueue(0, 0, "reset", 0, 1)
    /\ trigger_type \in [1..NumReports -> {"ADHOC", "SCHEDULED"}]
    /\ report_status = [r \in 1..NumReports |-> "PENDING"]
    /\ due = [r \in 1..NumReports |-> trigger_type[r] = "SCHEDULED"]
    /\ schedule_expression \in [1..NumReports -> {NULL, 1}]
    /\ \A r \in 1..NumReports : trigger_type[r] = "ADHOC" => schedule_expression[r] = NULL
    /\ spc = [s \in 1..NumServices |-> "loop"]
    /\ self_running = [s \in 1..NumServices |-> TRUE]
    /\ adhoc_count = [s \in 1..NumServices |-> 0]
    /\ scheduled_count = [s \in 1..NumServices |-> 0]
    /\ total_processed = [s \in 1..NumServices |-> 0]
    /\ reports = [s \in 1..NumServices |-> <<>>]
    /\ current = [s \in 1..NumServices |-> NULL]
    /\ generated_by = [r \in 1..NumReports |-> {}]
    /\ triggers = 0
    /\ trigger_failed = FALSE
    /\ report_priority = [r \in 1..NumReports |-> 1]
    /\ created_timestamp = [r \in 1..NumReports |-> NumReports - r]
    /\ next_run_time = [r \in 1..NumReports |->
            IF trigger_type[r] = "ADHOC" THEN NULL ELSE r]
    /\ fetched = <<>>
    /\ handled = <<>>
    /\ NoInvocations

\* The next statement of service s's run(), whatever its outcome.
ServiceStep(s) ==
    \/ \E ok \in BOOLEAN : CheckAdhoc(s, ok)
    \/ LoopExit(s)
    \/ \E ok \in BOOLEAN : CheckScheduled(s, ok)
    \/ \E ok \in BOOLEAN : GetAdhoc(s, ok)
    \/ \E ok \in BOOLEAN : GetScheduled(s, ok)
    \/ \E ok \in BOOLEAN : StartReport(s, ok)
    \/ \E success, ok \in BOOLEAN : \E outcome \in ScheduleOutcomes :
            FinishReport(s, success, ok, outcome)
    \/ \E ok \in BOOLEAN : RecheckAdhoc(s, ok)
    \/ \E ok \in BOOLEAN : RecheckScheduled(s, ok)
    \/ \E ok \in BOOLEAN : scale_down_when_idle(s, ok)

NextTerminate ==
    \/ \E s \in Services : ServiceStep(s)
    \/ \E s \in Services : shutdown_handler(s)

\* The service's thread is always scheduled again: a statement of run() that
\* can be executed is executed.  A termination signal may come or not.
SpecTerminate ==
    /\ InitTerminate
    /\ [][NextTerminate]_vars
    /\ \A s \in 1..NumServices : WF_vars(ServiceStep(s))

\* C39 -- with no new reports, run() eventually leaves its main loop, also
\* when update_report_status fails for reports that are still pending.
C39_RunLeavesLoop == <>(\A s \in 1..NumServices : spc[s] = "stopped")

====
